---- MODULE Spec2Model ----
(***************************************************************************)
(* Tool-calling orchestration loop and tool registry of the Slack bot:     *)
(*   src/src/llm_orchestrator.py  LLMOrchestrator                          *)
(*   src/src/mcp_server.py        SlackBotMCPServer                        *)
(*                                                                         *)
(* Text is modelled as a sequence of fragments (a Python str is the        *)
(* concatenation of its fragments): the empty str is << >>, an f-string is *)
(* the concatenation of its literal parts and its substituted values.      *)
(***************************************************************************)
EXTENDS Integers, Sequences, FiniteSets, TLC

(***************************************************************************)
(* Bounds of the model.                                                    *)
(***************************************************************************)
\* Largest value of self.max_iterations explored by Spec (the code sets 100,
\* see ReferenceMaxIterations; StubSpec runs the loop with that value).
MaxIterations == 2
\* Number of tool invocations the language model may request in one run.
MaxInvocations == 3
\* Largest number of tool calls the language model requests in one response.
MaxCallsPerTurn == 3
\* Number of tool invocations the language model may request in a run that was
\* given a context mapping (the loop does not look at the context).
MaxInvocationsWithContext == 1
\* Number of tool invocations requested by two concurrent calls together.
MaxConcurrentInvocations == 2

(***************************************************************************)
(* Program constants.                                                      *)
(***************************************************************************)
\* self.max_iterations = 100
ReferenceMaxIterations == 100

\* Python None where a str is expected (a value no text equals)
None == << "None", "NoneType" >>

(***************************************************************************)
(* Python values returned by json.loads and by tool handlers: a dict is a  *)
(* sequence of <<key, value>> pairs in insertion order, a list a sequence  *)
(* of items; keys, values and items are text fragments.                    *)
(***************************************************************************)
PyDict(items) == [type |-> "dict", items |-> items]
PyList(items) == [type |-> "list", items |-> items]
\* Python None where a dict or a list is expected
PyNone == [type |-> "NoneType", items |-> << >>]

\* dict.get(key): the value stored under key, None when the key is absent
DictGet(d, key) ==
    IF \E i \in 1..Len(d.items) : d.items[i][1] = key
    THEN d.items[CHOOSE i \in 1..Len(d.items) : d.items[i][1] = key][2]
    ELSE None

\* the keys of a dict
DictKeys(d) == { d.items[i][1] : i \in 1..Len(d.items) }

\* truth value of a str or None: None and the empty str are falsy
Truthy(v) == v # None /\ v # << >>

RECURSIVE JoinItems(_, _)
JoinItems(fragments, sep) ==
    IF fragments = << >> THEN << >>
    ELSE IF Len(fragments) = 1 THEN Head(fragments)
    ELSE Head(fragments) \o sep \o JoinItems(Tail(fragments), sep)

\* json.dumps of a str
JsonStr(s) == << "\"" >> \o s \o << "\"" >>

\* json.dumps(value) for a dict or a list
JsonDumps(v) ==
    IF v.type = "dict"
    THEN << "{" >>
         \o JoinItems([i \in 1..Len(v.items) |->
                          JsonStr(v.items[i][1]) \o << ": " >> \o JsonStr(v.items[i][2])],
                      << ", " >>)
         \o << "}" >>
    ELSE << "[" >>
         \o JoinItems([i \in 1..Len(v.items) |-> JsonStr(v.items[i])], << ", " >>)
         \o << "]" >>

\* json.dumps(value, indent=2) for a dict or a list: one item per line,
\* indented by two spaces; an empty dict or list has no line break
JsonDumpsIndent2(v) ==
    LET open == IF v.type = "dict" THEN "{" ELSE "["
        close == IF v.type = "dict" THEN "}" ELSE "]"
        item(i) == IF v.type = "dict"
                   THEN JsonStr(v.items[i][1]) \o << ": " >> \o JsonStr(v.items[i][2])
                   ELSE JsonStr(v.items[i])
    IN  IF v.items = << >>
        THEN << open, close >>
        ELSE << open, "\n  " >>
             \o JoinItems([i \in 1..Len(v.items) |-> item(i)], << ",\n  " >>)
             \o << "\n", close >>

\* repr of a str
ReprStr(s) == << "'" >> \o s \o << "'" >>

\* str(value)
StrOf(v) ==
    CASE v.type = "dict" ->
            << "{" >>
            \o JoinItems([i \in 1..Len(v.items) |->
                             ReprStr(v.items[i][1]) \o << ": " >> \o ReprStr(v.items[i][2])],
                         << ", " >>)
            \o << "}" >>
      [] v.type = "list" ->
            << "[" >>
            \o JoinItems([i \in 1..Len(v.items) |-> ReprStr(v.items[i])], << ", " >>)
            \o << "]" >>
      [] v.type = "NoneType" -> << "None" >>
      [] OTHER -> v.items

\* ToolContent with the json.dumps branch lost: every result goes through str()
ToolContent_Str(tool_result) == StrOf(tool_result)

\* a datetime object held in a dict or a list (a value no text equals)
DateTimeValue == << "datetime.datetime(2025, 9, 1, 10, 0)", "datetime" >>

\* json.dumps(value) returns: no item of the dict or list is a datetime
JsonSerializable(v) ==
    IF v.type = "dict" THEN \A i \in 1..Len(v.items) : v.items[i][2] # DateTimeValue
    ELSE IF v.type = "list" THEN \A i \in 1..Len(v.items) : v.items[i] # DateTimeValue
    ELSE TRUE

\* the message of the TypeError json.dumps raises otherwise
NotSerializableError == << "Object of type datetime is not JSON serializable" >>

\* content of a tool message:
\*   json.dumps(tool_result) if isinstance(tool_result, (dict, list)) else str(tool_result)
ToolContent(tool_result) ==
    IF tool_result.type \in {"dict", "list"}
    THEN JsonDumps(tool_result)
    ELSE StrOf(tool_result)

(***************************************************************************)
(* Type annotations of handler parameters.                                 *)
(***************************************************************************)
TStr == << "str" >>
TInt == << "int" >>
TFloat == << "float" >>
TBool == << "bool" >>
TAny == << "Any" >>
TNoneType == << "NoneType" >>
TEmpty == << "empty" >>
\* the classes list and dict written without type arguments
TListClass == << "list class" >>
TDictClass == << "dict class" >>
TList(t) == << "list", t >>
TTuple(t) == << "tuple", t >>
TDict(k, v) == << "dict", k, v >>
TOptional(t) == << "Union", t, TNoneType >>

\* one parameter of a handler signature: inspect.Parameter
Param(name, annotation, has_default) ==
    [name |-> name, annotation |-> annotation, has_default |-> has_default,
     kind |-> "POSITIONAL_OR_KEYWORD"]
VarKeyword(name) ==
    [name |-> name, annotation |-> TEmpty, has_default |-> FALSE,
     kind |-> "VAR_KEYWORD"]

ToolDefinition(name, params, description) ==
    [name |-> name, params |-> params, description |-> description]

\* the signature of a func that is not callable: inspect.signature raises
NoSignature ==
    << [name |-> "", annotation |-> TEmpty, has_default |-> FALSE,
        kind |-> "NOT_CALLABLE"] >>

\* the message of the TypeError inspect.signature raises in get_tool_schemas
\* for the first tool whose func is not callable, "" when every func is callable
SignatureError(registry) ==
    IF \E k \in 1..Len(registry) : registry[k].params = NoSignature
    THEN << "None is not a callable object" >>
    ELSE << >>

(***************************************************************************)
(* SlackBotMCPServer._register_tools: the handlers' signatures, in         *)
(* registration order.  The description is the handler's docstring, kept   *)
(* here by its first sentence.                                             *)
(***************************************************************************)
Req(name, annotation) == Param(name, annotation, FALSE)
Opt(name, annotation) == Param(name, annotation, TRUE)

create_client_mapping_params ==
    << Req("client_name", TStr),
       Opt("clickup_project_name", TOptional(TStr)),
       Opt("clickup_folder_name", TOptional(TStr)),
       Opt("clickup_folder_id", TOptional(TStr)),
       Opt("clickup_list_name", TOptional(TStr)),
       Opt("clickup_list_id", TOptional(TStr)),
       Opt("slack_internal_channel_name", TOptional(TStr)),
       Opt("slack_internal_channel_id", TOptional(TStr)),
       Opt("slack_external_channel_name", TOptional(TStr)),
       Opt("slack_external_channel_id", TOptional(TStr)),
       Opt("project_type", TOptional(TStr)),
       Opt("available_hours", TOptional(TInt)),
       Opt("revenue", TOptional(TFloat)),
       Opt("average_delivery_hourly", TOptional(TFloat)),
       Opt("status", TOptional(TStr)),
       Opt("qa_list_name", TOptional(TStr)),
       Opt("qa_list_id", TOptional(TStr)),
       Opt("alternatives", TOptional(TList(TStr))),
       Opt("notes", TOptional(TStr)) >>

get_tasks_by_list_id_params ==
    << Req("list_id", TStr),
       Opt("archived", TOptional(TBool)),
       Opt("include_closed", TOptional(TBool)),
       Opt("subtasks", TOptional(TBool)),
       Opt("statuses", TOptional(TList(TStr))),
       Opt("assignees", TOptional(TList(TStr))),
       Opt("due_date_gt", TOptional(TInt)),
       Opt("due_date_lt", TOptional(TInt)),
       Opt("date_created_gt", TOptional(TInt)),
       Opt("date_created_lt", TOptional(TInt)),
       Opt("date_updated_gt", TOptional(TInt)),
       Opt("date_updated_lt", TOptional(TInt)),
       Opt("page", TOptional(TInt)),
       Opt("order_by", TOptional(TStr)),
       Opt("reverse", TOptional(TBool)) >>

\* RegisteredTools with a second tool registered under the name of the first
RegisteredTools_Duplicate ==
    << ToolDefinition("get_client_mapping",
                      << Req("client_name", TStr) >>,
                      << "Retrieve client mapping information by name from Supabase." >>),
       ToolDefinition("get_client_mapping",
                      << Req("query", TStr) >>,
                      << "Search for client mappings using a flexible query." >>),
       ToolDefinition("get_all_client_names",
                      << >>,
                      << "Get a list of all client names for reference." >>) >>

RegisteredTools ==
    << ToolDefinition("get_client_mapping",
                      << Req("client_name", TStr) >>,
                      << "Retrieve client mapping information by name from Supabase." >>),
       ToolDefinition("search_client_mappings",
                      << Req("query", TStr) >>,
                      << "Search for client mappings using a flexible query." >>),
       ToolDefinition("get_all_client_names",
                      << >>,
                      << "Get a list of all client names for reference." >>),
       ToolDefinition("update_client_mapping",
                      << Req("client_name", TStr), Req("updates", TDict(TStr, TAny)) >>,
                      << "Update client mapping information in Supabase." >>),
       ToolDefinition("create_client_mapping",
                      create_client_mapping_params,
                      << "Create a new client mapping in Supabase." >>),
       ToolDefinition("get_client_by_channel_id",
                      << Req("channel_id", TStr) >>,
                      << "Get client mapping by Slack channel ID." >>),
       ToolDefinition("get_employee_by_slack_id",
                      << Req("slack_user_id", TStr) >>,
                      << "Get employee mapping by Slack user ID." >>),
       ToolDefinition("get_all_employees",
                      << >>,
                      << "Get all employees for reference." >>),
       ToolDefinition("get_tasks_by_list_id",
                      get_tasks_by_list_id_params,
                      << "Get tasks from a specific ClickUp list by ID." >>),
       ToolDefinition("get_tasks_updated_since",
                      << Req("list_id", TStr), Opt("hours_ago", TInt) >>,
                      << "Get tasks updated within the specified time period." >>),
       ToolDefinition("create_task",
                      << Req("list_id", TStr), Req("task_data", TDict(TStr, TAny)) >>,
                      << "Create a new task in a ClickUp list." >>),
       ToolDefinition("update_task",
                      << Req("task_id", TStr), Req("updates", TDict(TStr, TAny)) >>,
                      << "Update an existing ClickUp task." >>),
       ToolDefinition("get_task_details",
                      << Req("task_id", TStr) >>,
                      << "Get detailed information about a specific task." >>),
       ToolDefinition("get_list_details",
                      << Req("list_id", TStr) >>,
                      << "Get details about a ClickUp list." >>),
       ToolDefinition("get_tasks_with_time_spent",
                      << Req("list_id", TStr), VarKeyword("filters") >>,
                      << "Get tasks with time spent information from task details." >>),
       ToolDefinition("create_time_entry",
                      << Req("task_id", TStr), Req("duration_hours", TFloat),
                         Opt("description", TStr), Opt("assignee_id", TOptional(TInt)),
                         Opt("billable", TBool) >>,
                      << "Create a time entry for a specific task." >>),
       ToolDefinition("get_task_time_tracking",
                      << Req("task_id", TStr) >>,
                      << "Get time tracking information for a specific task." >>),
       ToolDefinition("get_recent_messages_by_channel",
                      << Req("channel_id", TStr), Opt("limit", TInt),
                         Opt("hours_ago", TOptional(TInt)) >>,
                      << "Get recent messages from a specific Slack channel." >>),
       ToolDefinition("get_latest_client_message",
                      << Req("channel_id", TStr) >>,
                      << "Get the most recent message from a client in a specific channel." >>),
       ToolDefinition("search_messages_by_text",
                      << Req("channel_id", TStr), Req("search_text", TStr),
                         Opt("limit", TInt) >>,
                      << "Search for messages containing specific text in a channel." >>),
       ToolDefinition("get_conversation_context",
                      << Req("channel_id", TStr), Opt("hours_ago", TInt),
                         Opt("limit", TInt) >>,
                      << "Get conversation context and statistics from a channel." >>) >>

\* a ToolDefinition takes its place in the list self.tools is assigned: the
\* list is built in the order written, and no name is compared with another
RegisterTool(registry, tool) == Append(registry, tool)

RECURSIVE RegisterAll(_, _)
RegisterAll(registry, definitions) ==
    IF definitions = << >> THEN registry
    ELSE RegisterAll(RegisterTool(registry, Head(definitions)), Tail(definitions))

\* self.tools after SlackBotMCPServer.__init__: [] and then _register_tools
register_tools == RegisterAll(<< >>, RegisteredTools)

(***************************************************************************)
(* SlackBotMCPServer.get_tool_schemas and _get_type_schema.                *)
(***************************************************************************)
\* JSON schema of a type annotation; items is << >> except for an array
RECURSIVE get_type_schema(_)
get_type_schema(param_type) ==
    CASE param_type[1] = "str" -> << "string" >>
      [] param_type[1] = "int" -> << "integer" >>
      [] param_type[1] = "float" -> << "number" >>
      [] param_type[1] = "bool" -> << "boolean" >>
      [] param_type[1] = "list" -> << "array", get_type_schema(param_type[2]) >>
      [] param_type[1] = "dict" -> << "object" >>
      [] param_type[1] = "Union" ->
            LET non_none_types ==
                    SelectSeq(Tail(param_type), LAMBDA t : t[1] # "NoneType")
            IN  IF Len(non_none_types) = 1
                THEN get_type_schema(non_none_types[1])
                ELSE << "string" >>
      [] OTHER -> << "string" >>

\* tool_schema with Optional[T] not unwrapped: every Union is a string
tool_schema_OptionalAsString(tool) ==
    [name |-> tool.name,
     description |-> tool.description,
     parameters |->
        [type |-> "object",
         properties |-> [i \in 1..Len(tool.params) |->
                            << tool.params[i].name,
                               IF tool.params[i].annotation[1] = "Union"
                               THEN << "string" >>
                               ELSE get_type_schema(tool.params[i].annotation) >>],
         required |-> LET req == SelectSeq(tool.params, LAMBDA p : ~p.has_default)
                      IN  [i \in 1..Len(req) |-> req[i].name]]]

\* tool_schema with a parameter whose default is None taken to have no default
tool_schema_NoneDefaultRequired(tool) ==
    [name |-> tool.name,
     description |-> tool.description,
     parameters |->
        [type |-> "object",
         properties |-> [i \in 1..Len(tool.params) |->
                            << tool.params[i].name,
                               get_type_schema(tool.params[i].annotation) >>],
         required |-> LET req == SelectSeq(tool.params,
                                     LAMBDA p : \/ ~p.has_default
                                                \/ p.annotation[1] = "Union")
                      IN  [i \in 1..Len(req) |-> req[i].name]]]

\* the schema of one tool: name, description, properties and required
tool_schema(tool) ==
    [name |-> tool.name,
     description |-> tool.description,
     parameters |->
        [type |-> "object",
         properties |-> [i \in 1..Len(tool.params) |->
                            << tool.params[i].name,
                               get_type_schema(tool.params[i].annotation) >>],
         required |-> LET req == SelectSeq(tool.params, LAMBDA p : ~p.has_default)
                      IN  [i \in 1..Len(req) |-> req[i].name]]]

\* get_tool_schemas leaving out the tools that take no parameters
get_tool_schemas_SkipEmpty(registry) ==
    LET kept == SelectSeq(registry, LAMBDA tool : tool.params # << >>)
    IN  [i \in 1..Len(kept) |-> tool_schema(kept[i])]

get_tool_schemas(registry) == [i \in 1..Len(registry) |-> tool_schema(registry[i])]


\* OpenAITools with the last schema left out
OpenAITools_DropLast(tool_schemas) ==
    [i \in 1..(Len(tool_schemas) - 1) |->
        [type |-> "function",
         function |-> [name |-> tool_schemas[i].name,
                       description |-> tool_schemas[i].description,
                       parameters |-> tool_schemas[i].parameters]]]

\* _call_gpt4_with_tools: the schemas converted to the OpenAI tools format
OpenAITools(tool_schemas) ==
    [i \in 1..Len(tool_schemas) |->
        [type |-> "function",
         function |-> [name |-> tool_schemas[i].name,
                       description |-> tool_schemas[i].description,
                       parameters |-> tool_schemas[i].parameters]]]

(***************************************************************************)
(* Fixed texts of the orchestrator.                                        *)
(***************************************************************************)
Str(s) == << s >>

base_system_prompt == Str("You are the *Veza Digital AI Agent* ...")

\* _get_current_datetime_context: the date/time block computed from the clock
get_current_datetime_context(now) ==
    Str("*CRITICAL DATE/TIME CONTEXT* RIGHT NOW: ") \o now

\* the clock value at which the orchestrator was constructed
ConstructionTime == Str("2025-09-01 09:59:58")

\* system_prompt with the date/time block computed once, when the
\* orchestrator is constructed, and kept
system_prompt_Cached(now) ==
    base_system_prompt \o Str("\n\n") \o get_current_datetime_context(ConstructionTime)

\* the system_prompt property
system_prompt(now) ==
    base_system_prompt \o Str("\n\n") \o get_current_datetime_context(now)

FallbackMessage ==
    Str("I apologize, but I couldn't generate a proper response. Please try rephrasing your question.")

ApologyMessage ==
    Str("I apologize, but I'm having trouble processing your request completely. Please try breaking it down into smaller questions.")

FinalInstruction ==
    Str("You have successfully completed the requested tool calls. Please provide a final response to the user based on the tool results. Do not make any more tool calls.")

\* the text process_user_message returns when it catches exception e
ErrorMessage(e) ==
    Str("I apologize, but I encountered an error while processing your request: ")
    \o e \o Str(". Please try again or rephrase your question.")

\* the exception _call_gpt4_with_tools raises when the API call raises e
Gpt4Failure(e) == Str("Failed to call GPT-4: ") \o e

(***************************************************************************)
(* Messages of the conversation.                                           *)
(***************************************************************************)
Message(role, content) ==
    [role |-> role, content |-> content, tool_calls |-> << >>, tool_call_id |-> None]

\* response.choices[0].message.model_dump() of a response that requests tools
AssistantMessage(response) ==
    [role |-> "assistant", content |-> response.content,
     tool_calls |-> response.tool_calls, tool_call_id |-> None]

ToolMessage(tool_call_id, content) ==
    [role |-> "tool", content |-> content, tool_calls |-> << >>,
     tool_call_id |-> tool_call_id]

\* InsertBeforeLast as list.append(x): x goes after the last element
InsertBeforeLast_Append(list, x) == Append(list, x)

\* list.insert(-1, x): x goes in front of the last element
InsertBeforeLast(list, x) ==
    IF list = << >> THEN << x >>
    ELSE SubSeq(list, 1, Len(list) - 1) \o << x, list[Len(list)] >>

\* the messages process_user_message starts the loop with
InitialMessages(user_message, context, now) ==
    LET base == << Message("system", system_prompt(now)),
                   Message("user", user_message) >>
    IN  IF context # PyNone /\ context.items # << >>
        THEN InsertBeforeLast(base,
                Message("system",
                        Str("Additional context: ") \o JsonDumpsIndent2(context)))
        ELSE base

(***************************************************************************)
(* LLMOrchestrator._execute_tool_call and SlackBotMCPServer.call_tool.     *)
(***************************************************************************)
\* argument payloads the language model sends, as raw text
ArgsClientName == Str("{\"client_name\": \"Acme\"}")
ArgsEmpty == Str("{}")
ArgsTruncated == Str("{\"client_name\": ")
ArgsUndeclared == Str("{\"client_name\": \"Acme\", \"verbose\": \"yes\"}")
ArgsNotMapping == Str("[\"Acme\"]")
ArgsNull == Str("null")
ArgsListId == Str("{\"list_id\": \"901\"}")
ArgsListIdStatus == Str("{\"list_id\": \"901\", \"status\": \"open\"}")

\* json.loads(raw): the decoded value, or the JSONDecodeError's message
JsonLoads(raw) ==
    CASE raw = ArgsClientName ->
            [ok |-> TRUE, value |-> PyDict(<< << Str("client_name"), Str("Acme") >> >>)]
      [] raw = ArgsEmpty ->
            [ok |-> TRUE, value |-> PyDict(<< >>)]
      [] raw = ArgsUndeclared ->
            [ok |-> TRUE, value |-> PyDict(<< << Str("client_name"), Str("Acme") >>,
                                              << Str("verbose"), Str("yes") >> >>)]
      [] raw = ArgsNotMapping ->
            [ok |-> TRUE, value |-> PyList(<< Str("Acme") >>)]
      [] raw = ArgsNull ->
            [ok |-> TRUE, value |-> PyNone]
      [] raw = ArgsListId ->
            [ok |-> TRUE, value |-> PyDict(<< << Str("list_id"), Str("901") >> >>)]
      [] raw = ArgsListIdStatus ->
            [ok |-> TRUE, value |-> PyDict(<< << Str("list_id"), Str("901") >>,
                                              << Str("status"), Str("open") >> >>)]
      [] OTHER ->
            [ok |-> FALSE, error |-> Str("Expecting value: line 1 column 17 (char 16)")]

\* a failure envelope {"error": message}
ErrorEnvelope(message) == PyDict(<< << Str("error"), message >> >>)

\* FindTool falling back on the first tool when no tool has the name
FindTool_Default(registry, tool_name) ==
    IF \E i \in 1..Len(registry) : registry[i].name = tool_name
    THEN CHOOSE i \in 1..Len(registry) :
            /\ registry[i].name = tool_name
            /\ \A j \in 1..(i - 1) : registry[j].name # tool_name
    ELSE 1

\* call_tool's search of self.tools: the index of the first tool with the name, 0 if none
FindTool(registry, tool_name) ==
    IF \E i \in 1..Len(registry) : registry[i].name = tool_name
    THEN CHOOSE i \in 1..Len(registry) :
            /\ registry[i].name = tool_name
            /\ \A j \in 1..(i - 1) : registry[j].name # tool_name
    ELSE 0

ParamNames(tool) == { tool.params[i].name : i \in 1..Len(tool.params) }

\* BindError with a **name parameter collecting nothing: a keyword that is
\* no named parameter is always refused
BindError_NoCatchAll(tool, arguments) ==
    LET named == { i \in 1..Len(tool.params) : tool.params[i].kind # "VAR_KEYWORD" }
        unexpected == { k \in DictKeys(arguments) :
                           \A i \in named : Str(tool.params[i].name) # k }
        missing == { i \in named : /\ ~tool.params[i].has_default
                                   /\ Str(tool.params[i].name) \notin DictKeys(arguments) }
    IN  IF arguments.type # "dict"
        THEN Str("argument after ** must be a mapping, not ") \o Str(arguments.type)
        ELSE IF unexpected # {}
        THEN Str("got an unexpected keyword argument ") \o (CHOOSE k \in unexpected : TRUE)
        ELSE IF missing # {}
        THEN Str("missing required positional argument: ")
             \o Str(tool.params[CHOOSE i \in missing : \A j \in missing : i <= j].name)
        ELSE None

\* BindError with keyword arguments the handler does not declare dropped
\* instead of refused
BindError_DropUnexpected(tool, arguments) ==
    LET named == { i \in 1..Len(tool.params) : tool.params[i].kind # "VAR_KEYWORD" }
        missing == { i \in named : /\ ~tool.params[i].has_default
                                   /\ Str(tool.params[i].name) \notin DictKeys(arguments) }
    IN  IF arguments.type # "dict"
        THEN Str("argument after ** must be a mapping, not ") \o Str(arguments.type)
        ELSE IF missing # {}
        THEN Str("missing required positional argument: ")
             \o Str(tool.params[CHOOSE i \in missing : \A j \in missing : i <= j].name)
        ELSE None

\* tool_func(**arguments): the message of the TypeError the call raises before
\* the handler body runs, None when the arguments bind
BindError(tool, arguments) ==
    LET named == { i \in 1..Len(tool.params) : tool.params[i].kind # "VAR_KEYWORD" }
        has_var_keyword == \E i \in 1..Len(tool.params) : tool.params[i].kind = "VAR_KEYWORD"
        unexpected == { k \in DictKeys(arguments) :
                           \A i \in named : Str(tool.params[i].name) # k }
        missing == { i \in named : /\ ~tool.params[i].has_default
                                   /\ Str(tool.params[i].name) \notin DictKeys(arguments) }
    IN  IF arguments.type # "dict"
        THEN Str("argument after ** must be a mapping, not ") \o Str(arguments.type)
        ELSE IF unexpected # {} /\ ~has_var_keyword
        THEN Str("got an unexpected keyword argument ") \o (CHOOSE k \in unexpected : TRUE)
        ELSE IF missing # {}
        THEN Str("missing required positional argument: ")
             \o Str(tool.params[CHOOSE i \in missing : \A j \in missing : i <= j].name)
        ELSE None

\* ToolCallFailed with the message of the caught exception left out
ToolCallFailed_Opaque(e) == Str("Tool call failed")

\* the exception call_tool raises for an exception e raised inside it
ToolCallFailed(e) == Str("Tool call failed: ") \o e

\* the envelope _execute_tool_call returns for an exception e of call_tool
ToolExecutionFailed(e) == ErrorEnvelope(Str("Tool execution failed: ") \o e)

\* the envelope _execute_tool_call returns for a JSONDecodeError e
InvalidToolArguments(e) == ErrorEnvelope(Str("Invalid tool arguments: ") \o e)

\* the test of the loop: the result counts as a successful tool call
IsSuccessful(tool_result) ==
    ~(tool_result.type = "dict" /\ Truthy(DictGet(tool_result, Str("error"))))

(***************************************************************************)
(* State of one process_user_message call.                                 *)
(***************************************************************************)
VARIABLES
    tools,                   \* mcp_server.tools, the registry
    max_iterations,          \* self.max_iterations
    args,                    \* process_user_message: user_message, context and the clock
    run,                     \* which call of process_user_message is running
    waiting,                 \* the frame of the call suspended at an await
    pc,                      \* where the call stands
    tool_schemas,            \* process_user_message: tool_schemas
    messages,                \* the conversation
    iteration,               \* _execute_conversation_loop: iteration
    last_successful_tools,   \* _execute_conversation_loop: last_successful_tools
    current_iteration_tools, \* _execute_conversation_loop: current_iteration_tools
    response,                \* the last response of the language model
    tool_index,              \* position of the for loop in response.tool_calls
    request,                 \* messages and tools of the last model call
    result,                  \* the text process_user_message returned
    outcome,                 \* which return statement produced it
    issued,                  \* invocation ids the language model has assigned
    model_calls,             \* model calls made inside the loop
    grace_calls,             \* model calls made after the loop
    model_failed,            \* a model call inside the loop has raised
    invocations,             \* one record per executed tool call, in order
    slack,                   \* SlackBotHandler: the inbound message and its two event handlers
    supabase,                \* SupabaseTools: _cache, _cache_timestamp, the clock and the table
    threads,                 \* SlackBotHandler.thread_contexts and the exchanges recorded
    app                      \* SlackBotApplication: running, _shutdown_event and the components

vars == << slack, supabase, threads, app, tools, max_iterations, args, run, waiting, pc, tool_schemas, messages, iteration,
           last_successful_tools, current_iteration_tools, response, tool_index,
           request, result, outcome, issued, model_calls, grace_calls,
           model_failed, invocations >>

loop_vars == << iteration, last_successful_tools, current_iteration_tools >>
ghost_vars == << issued, model_calls, grace_calls, model_failed, invocations >>

NoResponse == [content |-> None, tool_calls |-> << >>]
NoRequest == [messages |-> << >>, tools |-> << >>]
NoArgs == [user_message |-> None, context |-> PyNone, now |-> None]

\* the Slack handler before any event is delivered
NoEvent ==
    [msg |-> [mention |-> FALSE, in_thread |-> FALSE, from_bot |-> FALSE, words |-> FALSE,
              subtype |-> "none"],
     history |-> [mentioned |-> FALSE, bot_replied |-> FALSE, other_bot |-> FALSE],
     pc |-> << "none", "none" >>, process_calls |-> 0, posted |-> << >>]

\* SupabaseTools: the keys of self._cache
CacheKeys == { "client_mapping_acme", "client_mapping_globex", "all_client_names" }

\* self._cache_timestamp = None
NoTimestamp == -1

\* a key that is not in self._cache
Absent == [present |-> FALSE, version |-> 0, stored |-> 0]

\* no method of SupabaseTools has returned yet
NoReturn ==
    [op |-> "none", key |-> "none", from_cache |-> FALSE, queried |-> FALSE,
     version |-> 0, age |-> 0, empty |-> FALSE, raised |-> FALSE]

\* SupabaseTools.__init__: an empty cache without timestamp; the clock and
\* the version of the client_mappings table
NoCache ==
    [cache |-> [k \in CacheKeys |-> Absent], cache_timestamp |-> NoTimestamp,
     now |-> 0, table_version |-> 0, returned |-> NoReturn]

\* SlackBotHandler.__init__: self.thread_contexts = {}; recorded keeps every
\* exchange handed to _update_thread_context, calls counts them
ThreadKeys == { << "C042", ":", "1725184800.0001" >>, << "C042", ":", "1725184900.0002" >> }
NoThreads ==
    [thread_contexts |-> [k \in ThreadKeys |-> [present |-> FALSE, messages |-> << >>]],
     recorded |-> [k \in ThreadKeys |-> << >>],
     calls |-> 0]

\* SlackBotApplication.__init__: running = False, the event not set
NotStarted ==
    [pc |-> "created", running |-> FALSE, shutdown_event |-> FALSE, signals |-> 0,
     started |-> << >>, closed |-> << >>, failed |-> FALSE, shutdown_calls |-> 0]

\* the locals of a call of process_user_message that has not started
NoCall ==
    [pc |-> "idle", args |-> NoArgs, tool_schemas |-> << >>, messages |-> << >>,
     iteration |-> 0, last_successful_tools |-> << >>,
     current_iteration_tools |-> << >>, response |-> NoResponse, tool_index |-> 0,
     request |-> NoRequest, result |-> None, outcome |-> "none", model_calls |-> 0,
     grace_calls |-> 0, model_failed |-> FALSE, invocations |-> << >>]

(***************************************************************************)
(* Inputs drawn by the environment.                                        *)
(***************************************************************************)
UserMessages == { Str("What's 2+2?") }
Contexts == { PyNone, PyDict(<< >>), PyDict(<< << Str("channel_id"), Str("C042") >> >>) }
ClockValues == { Str("2025-09-01 10:00:00") }

\* what the language model may ask for: tool name and raw argument payload
ToolRequests ==
    { [name |-> "get_client_mapping", arguments |-> ArgsClientName],
      [name |-> "get_client_mapping", arguments |-> ArgsEmpty],
      [name |-> "get_client_mapping", arguments |-> ArgsTruncated],
      [name |-> "doesNotExist", arguments |-> ArgsEmpty],
      [name |-> "doesNotExist", arguments |-> ArgsTruncated] }

\* texts of a response without tool calls: an answer, the empty text, no text
FinalContents == { Str("Acme is the client."), << >>, None }

\* what a handler may return, and the messages of what it may raise
HandlerValues ==
    { PyDict(<< << Str("name"), Str("Acme") >> >>),
      PyDict(<< << Str("error"), Str("Client not found") >> >>),
      PyList(<< Str("Acme"), Str("Globex") >>) }
HandlerErrors == { Str("boom") }
TransportErrors == { Str("Connection error.") }

ToolCall(id, req) == [id |-> id, name |-> req.name, arguments |-> req.arguments]

TypeOK ==
    /\ pc \in { "idle", "loop", "AwaitingModel", "ExecutingTools", "InHandler",
                "AwaitingGrace", "returned" }
    /\ outcome \in { "none", "Done", "Exhausted", "Error" }
    /\ iteration \in 0..max_iterations
    /\ model_calls \in Nat /\ grace_calls \in Nat /\ issued \in Nat
    /\ model_failed \in BOOLEAN

\* no call of process_user_message has started
NoCallStarted ==
    /\ slack = NoEvent
    /\ supabase = NoCache
    /\ threads = NoThreads
    /\ app = NotStarted
    /\ args = NoArgs
    /\ run = 1
    /\ waiting = NoCall
    /\ pc = "idle"
    /\ tool_schemas = << >>
    /\ messages = << >>
    /\ iteration = 0
    /\ last_successful_tools = << >>
    /\ current_iteration_tools = << >>
    /\ response = NoResponse
    /\ tool_index = 0
    /\ request = NoRequest
    /\ result = None
    /\ outcome = "none"
    /\ issued = 0
    /\ model_calls = 0
    /\ grace_calls = 0
    /\ model_failed = FALSE
    /\ invocations = << >>

\* the server and the orchestrator are constructed, no call has started
Constructed ==
    /\ tools = register_tools
    /\ NoCallStarted

Init ==
    /\ Constructed
    /\ max_iterations \in 1..MaxIterations

\* the orchestrator as the code constructs it: max_iterations = 100
ReferenceInit ==
    /\ Constructed
    /\ max_iterations = ReferenceMaxIterations

(***************************************************************************)
(* process_user_message up to the first model call.                        *)
(***************************************************************************)
\* ProcessUserMessage with a schema derivation that goes through the
\* registry in an order that is not the same on every call: the second call
\* gets the schemas last tool first
ProcessUserMessage_UnorderedSchemas(user_message, context, now) ==
    /\ pc = "idle"
    /\ args' = [user_message |-> user_message, context |-> context, now |-> now]
    /\ tool_schemas' =
          IF run = 1 THEN get_tool_schemas(tools)
          ELSE [i \in 1..Len(tools) |-> get_tool_schemas(tools)[Len(tools) + 1 - i]]
    /\ messages' = InitialMessages(user_message, context, now)
    /\ iteration' = 0
    /\ last_successful_tools' = << >>
    /\ pc' = "loop"
    /\ UNCHANGED << tools, max_iterations, slack, supabase, threads, app, run, waiting, current_iteration_tools,
                    response, tool_index, request, result, outcome, ghost_vars >>

ProcessUserMessage(user_message, context, now) ==
    /\ pc = "idle"
    /\ args' = [user_message |-> user_message, context |-> context, now |-> now]
    /\ IF SignatureError(tools) # << >>
       THEN /\ result' = ErrorMessage(SignatureError(tools))
            /\ outcome' = "Error"
            /\ pc' = "returned"
            /\ UNCHANGED << tool_schemas, messages, iteration, last_successful_tools >>
       ELSE /\ tool_schemas' = get_tool_schemas(tools)
            /\ messages' = InitialMessages(user_message, context, now)
            /\ iteration' = 0
            /\ last_successful_tools' = << >>
            /\ pc' = "loop"
            /\ UNCHANGED << result, outcome >>
    /\ UNCHANGED << tools, max_iterations, slack, supabase, threads, app, run, waiting, current_iteration_tools,
                    response, tool_index, request, ghost_vars >>

(***************************************************************************)
(* _execute_conversation_loop.                                             *)
(***************************************************************************)
\* process_user_message returns text
Return(text, how) ==
    /\ result' = text
    /\ outcome' = how
    /\ pc' = "returned"

\* LoopContinues with the bound off by one
LoopContinues_Inclusive == iteration <= max_iterations

\* the guard of the while loop
LoopContinues == iteration < max_iterations

\* CallModel with the increment of iteration lost
CallModel_NoIncrement ==
    /\ pc = "loop"
    /\ request' = [messages |-> messages, tools |-> OpenAITools(tool_schemas)]
    /\ model_calls' = model_calls + 1
    /\ pc' = "AwaitingModel"
    /\ UNCHANGED << tools, max_iterations, slack, supabase, threads, app, args, run, waiting, tool_schemas, messages, loop_vars,
                    response, tool_index, result, outcome, issued, grace_calls,
                    model_failed, invocations >>

\* while iteration < self.max_iterations: iteration += 1; the model is called
CallModel ==
    /\ pc = "loop"
    /\ LoopContinues
    /\ iteration' = iteration + 1
    /\ request' = [messages |-> messages, tools |-> OpenAITools(tool_schemas)]
    /\ model_calls' = model_calls + 1
    /\ pc' = "AwaitingModel"
    /\ UNCHANGED << tools, max_iterations, slack, supabase, threads, app, args, run, waiting, tool_schemas, messages,
                    last_successful_tools, current_iteration_tools, response,
                    tool_index, result, outcome, issued, grace_calls,
                    model_failed, invocations >>

\* ModelReturnsToolCalls with the append of the assistant message lost
ModelReturnsToolCalls_NoAppend(reqs) ==
    /\ pc = "AwaitingModel"
    /\ reqs # << >>
    /\ response' = [content |-> None,
                    tool_calls |-> [i \in 1..Len(reqs) |-> ToolCall(issued + i, reqs[i])]]
    /\ issued' = issued + Len(reqs)
    /\ current_iteration_tools' = << >>
    /\ tool_index' = 1
    /\ pc' = "ExecutingTools"
    /\ UNCHANGED << tools, max_iterations, slack, supabase, threads, app, args, run, waiting, tool_schemas, messages,
                    iteration, last_successful_tools, request, result, outcome,
                    model_calls, grace_calls, model_failed, invocations >>

\* the model answers with tool calls: the assistant message is appended
ModelReturnsToolCalls(reqs) ==
    /\ pc = "AwaitingModel"
    /\ reqs # << >>
    /\ response' = [content |-> None,
                    tool_calls |-> [i \in 1..Len(reqs) |-> ToolCall(issued + i, reqs[i])]]
    /\ issued' = issued + Len(reqs)
    /\ messages' = Append(messages, AssistantMessage(response'))
    /\ current_iteration_tools' = << >>
    /\ tool_index' = 1
    /\ pc' = "ExecutingTools"
    /\ UNCHANGED << tools, max_iterations, slack, supabase, threads, app, args, run, waiting, tool_schemas, iteration,
                    last_successful_tools, request, result, outcome, model_calls,
                    grace_calls, model_failed, invocations >>

\* ModelReturnsFinal with the test of final_content inverted
ModelReturnsFinal_Inverted(content) ==
    /\ pc = "AwaitingModel"
    /\ response' = [content |-> content, tool_calls |-> << >>]
    /\ Return(IF ~Truthy(content) THEN content ELSE FallbackMessage, "Done")
    /\ UNCHANGED << tools, max_iterations, slack, supabase, threads, app, args, run, waiting, tool_schemas, messages, loop_vars,
                    tool_index, request, ghost_vars >>

\* ModelReturnsFinal with an empty text answered by the exhaustion apology
ModelReturnsFinal_Apology(content) ==
    /\ pc = "AwaitingModel"
    /\ response' = [content |-> content, tool_calls |-> << >>]
    /\ Return(IF Truthy(content) THEN content ELSE ApologyMessage, "Done")
    /\ UNCHANGED << tools, max_iterations, slack, supabase, threads, app, args, run, waiting, tool_schemas, messages, loop_vars,
                    tool_index, request, ghost_vars >>

\* the model answers without tool calls: its text, or the fallback, is returned
ModelReturnsFinal(content) ==
    /\ pc = "AwaitingModel"
    /\ response' = [content |-> content, tool_calls |-> << >>]
    /\ Return(IF Truthy(content) THEN content ELSE FallbackMessage, "Done")
    /\ UNCHANGED << tools, max_iterations, slack, supabase, threads, app, args, run, waiting, tool_schemas, messages, loop_vars,
                    tool_index, request, ghost_vars >>

\* ModelCallFails with the failure swallowed and the loop continued
ModelCallFails_Retry(e) ==
    /\ pc = "AwaitingModel"
    /\ model_failed' = TRUE
    /\ pc' = "loop"
    /\ UNCHANGED << tools, max_iterations, slack, supabase, threads, app, args, run, waiting, tool_schemas, messages, loop_vars,
                    response, tool_index, request, result, outcome, issued,
                    model_calls, grace_calls, invocations >>

\* the API call raises e: _call_gpt4_with_tools raises, process_user_message
\* catches and returns the error text
ModelCallFails(e) ==
    /\ pc = "AwaitingModel"
    /\ model_failed' = TRUE
    /\ Return(ErrorMessage(Gpt4Failure(e)), "Error")
    /\ UNCHANGED << tools, max_iterations, slack, supabase, threads, app, args, run, waiting, tool_schemas, messages, loop_vars,
                    response, tool_index, request, issued, model_calls,
                    grace_calls, invocations >>

(***************************************************************************)
(* The for loop over response.tool_calls.                                  *)
(***************************************************************************)
\* Dispatch with the tool looked up before the arguments are decoded
Dispatch_ResolveFirst(registry, tool_call) ==
    LET decoded == JsonLoads(tool_call.arguments)
        found == FindTool(registry, tool_call.name)
        not_found == Str("Tool '") \o Str(tool_call.name) \o Str("' not found")
    IN  IF found = 0
        THEN [enters |-> FALSE, kind |-> "UnknownCapability",
              result |-> ToolExecutionFailed(ToolCallFailed(not_found))]
        ELSE IF ~decoded.ok
        THEN [enters |-> FALSE, kind |-> "InvalidArguments",
              result |-> InvalidToolArguments(decoded.error)]
        ELSE IF BindError(registry[found], decoded.value) # None
        THEN [enters |-> FALSE, kind |-> "CapabilityExecutionError",
              result |-> ToolExecutionFailed(ToolCallFailed(
                             BindError(registry[found], decoded.value)))]
        ELSE [enters |-> TRUE, kind |-> "ok", result |-> PyNone]

\* _execute_tool_call and call_tool up to the call of the handler body:
\* either the handler is entered, or a failure envelope is the result
Dispatch(registry, tool_call) ==
    LET decoded == JsonLoads(tool_call.arguments)
        found == FindTool(registry, tool_call.name)
        not_found == Str("Tool '") \o Str(tool_call.name) \o Str("' not found")
    IN  IF ~decoded.ok
        THEN [enters |-> FALSE, kind |-> "InvalidArguments",
              result |-> InvalidToolArguments(decoded.error)]
        ELSE IF found = 0
        THEN [enters |-> FALSE, kind |-> "UnknownCapability",
              result |-> ToolExecutionFailed(ToolCallFailed(not_found))]
        ELSE IF BindError(registry[found], decoded.value) # None
        THEN [enters |-> FALSE, kind |-> "CapabilityExecutionError",
              result |-> ToolExecutionFailed(ToolCallFailed(
                             BindError(registry[found], decoded.value)))]
        ELSE [enters |-> TRUE, kind |-> "ok", result |-> PyNone]

\* TrackSuccessful with every tool call of the turn counted as successful
TrackSuccessful_All(current, tool_call, tool_result) ==
    Append(current, [name |-> tool_call.name, result |-> tool_result])

\* the successful tool calls of the turn after tool_call has produced tool_result
TrackSuccessful(current, tool_call, tool_result) ==
    IF IsSuccessful(tool_result)
    THEN Append(current, [name |-> tool_call.name, result |-> tool_result])
    ELSE current

\* if current_iteration_tools: last_successful_tools = current_iteration_tools
UpdateLastSuccessful(last, current) ==
    IF current # << >> THEN current ELSE last

\* AppendToolResult with the result put in front of the results the turn
\* already has: the tool messages of a turn end up in reverse order
AppendToolResult_Front(conversation, tool_call, tool_result) ==
    LET n == Len(conversation)
        k == CHOOSE i \in 0..n :
                /\ \A j \in (i + 1)..n : conversation[j].role = "tool"
                /\ i > 0 => conversation[i].role # "tool"
    IN  SubSeq(conversation, 1, k)
        \o << ToolMessage(tool_call.id, ToolContent(tool_result)) >>
        \o SubSeq(conversation, k + 1, n)

\* AppendToolResult with the tool message appended twice
AppendToolResult_Twice(conversation, tool_call, tool_result) ==
    conversation \o << ToolMessage(tool_call.id, ToolContent(tool_result)),
                       ToolMessage(tool_call.id, ToolContent(tool_result)) >>

\* messages.append({"role": "tool", "tool_call_id": tool_call.id, "content": ...})
AppendToolResult(conversation, tool_call, tool_result) ==
    Append(conversation, ToolMessage(tool_call.id, ToolContent(tool_result)))

\* LastToolCall taken to hold at the first tool call: the for loop is left
\* after one tool call
LastToolCall_First == tool_index >= 1

\* the for loop has reached the last tool call of the response
LastToolCall == tool_index = Len(response.tool_calls)

\* the rest of the loop body once tool_call has produced tool_result
FinishToolCall(tool_call, tool_result, kind, handler_ran) ==
    LET current == TrackSuccessful(current_iteration_tools, tool_call, tool_result)
    IN  /\ current_iteration_tools' = current
        /\ messages' = AppendToolResult(messages, tool_call, tool_result)
        /\ invocations' = Append(invocations,
                [id |-> tool_call.id, name |-> tool_call.name, turn |-> iteration,
                 kind |-> kind, handler_ran |-> handler_ran,
                 recorded |-> IsSuccessful(tool_result), result |-> tool_result])
        /\ IF LastToolCall
           THEN /\ last_successful_tools' =
                        UpdateLastSuccessful(last_successful_tools, current)
                /\ tool_index' = tool_index
                /\ pc' = "loop"
           ELSE /\ last_successful_tools' = last_successful_tools
                /\ tool_index' = tool_index + 1
                /\ pc' = "ExecutingTools"
        /\ UNCHANGED << tools, max_iterations, slack, supabase, threads, app, args, run, waiting, tool_schemas, iteration, response,
                        request, result, outcome, issued, model_calls,
                        grace_calls, model_failed >>

\* _execute_tool_call for the next tool call of the turn
ExecuteToolCall ==
    /\ pc = "ExecutingTools"
    /\ LET tool_call == response.tool_calls[tool_index]
           d == Dispatch(tools, tool_call)
       IN  IF d.enters
           THEN /\ pc' = "InHandler"
                /\ UNCHANGED << tools, max_iterations, slack, supabase, threads, app, args, run, waiting, tool_schemas, messages,
                                loop_vars, response, tool_index, request, result,
                                outcome, ghost_vars >>
           ELSE FinishToolCall(tool_call, d.result, d.kind, FALSE)

\* HandlerReturns with the TypeError of json.dumps leaving process_user_message
HandlerReturns_Raises(value) ==
    /\ pc = "InHandler"
    /\ IF JsonSerializable(value)
       THEN FinishToolCall(response.tool_calls[tool_index], value, "ok", TRUE)
       ELSE /\ Return(None, "Raised")
            /\ UNCHANGED << tools, max_iterations, slack, supabase, threads, app, args, run, waiting, tool_schemas,
                            messages, loop_vars, response, tool_index, request,
                            ghost_vars >>

\* the handler returns value: call_tool and _execute_tool_call return it, the
\* loop appends it as a tool message; json.dumps raising on it ends the loop
\* and process_user_message returns the error text
HandlerReturns(value) ==
    /\ pc = "InHandler"
    /\ IF JsonSerializable(value)
       THEN FinishToolCall(response.tool_calls[tool_index], value, "ok", TRUE)
       ELSE /\ Return(ErrorMessage(NotSerializableError), "Error")
            /\ UNCHANGED << tools, max_iterations, slack, supabase, threads, app, args, run, waiting, tool_schemas,
                            messages, loop_vars, response, tool_index, request,
                            ghost_vars >>

\* HandlerRaises with no except clause on the way: the exception reaches
\* process_user_message, which returns the error text
HandlerRaises_Propagates(e) ==
    /\ pc = "InHandler"
    /\ Return(ErrorMessage(e), "Error")
    /\ UNCHANGED << tools, max_iterations, slack, supabase, threads, app, args, run, waiting, tool_schemas, messages, loop_vars,
                    response, tool_index, request, ghost_vars >>

\* the handler raises e: call_tool wraps it, _execute_tool_call returns the envelope
HandlerRaises(e) ==
    /\ pc = "InHandler"
    /\ FinishToolCall(response.tool_calls[tool_index],
                      ToolExecutionFailed(ToolCallFailed(e)),
                      "CapabilityExecutionError", TRUE)

(***************************************************************************)
(* After the loop: max_iterations reached.                                 *)
(***************************************************************************)
\* if last_successful_tools:
GraceDue == last_successful_tools # << >>

\* GraceCall with the tool schemas still offered to the model
GraceCall_WithTools ==
    /\ pc = "loop"
    /\ ~LoopContinues
    /\ GraceDue
    /\ request' = [messages |-> messages \o << Message("system", FinalInstruction) >>,
                   tools |-> OpenAITools(tool_schemas)]
    /\ grace_calls' = grace_calls + 1
    /\ pc' = "AwaitingGrace"
    /\ UNCHANGED << tools, max_iterations, slack, supabase, threads, app, args, run, waiting, tool_schemas, messages, loop_vars,
                    response, tool_index, result, outcome, issued, model_calls,
                    model_failed, invocations >>

\* final_messages = messages + [system instruction]; called with no tools
GraceCall ==
    /\ pc = "loop"
    /\ ~LoopContinues
    /\ GraceDue
    /\ request' = [messages |-> messages \o << Message("system", FinalInstruction) >>,
                   tools |-> OpenAITools(<< >>)]
    /\ grace_calls' = grace_calls + 1
    /\ pc' = "AwaitingGrace"
    /\ UNCHANGED << tools, max_iterations, slack, supabase, threads, app, args, run, waiting, tool_schemas, messages, loop_vars,
                    response, tool_index, result, outcome, issued, model_calls,
                    model_failed, invocations >>

\* ExhaustedWithoutGrace returning the text of the empty-answer case
ExhaustedWithoutGrace_Fallback ==
    /\ pc = "loop"
    /\ ~LoopContinues
    /\ ~GraceDue
    /\ Return(FallbackMessage, "Exhausted")
    /\ UNCHANGED << tools, max_iterations, slack, supabase, threads, app, args, run, waiting, tool_schemas, messages, loop_vars,
                    response, tool_index, request, ghost_vars >>

\* no successful tool calls to report: the apology is returned
ExhaustedWithoutGrace ==
    /\ pc = "loop"
    /\ ~LoopContinues
    /\ ~GraceDue
    /\ Return(ApologyMessage, "Exhausted")
    /\ UNCHANGED << tools, max_iterations, slack, supabase, threads, app, args, run, waiting, tool_schemas, messages, loop_vars,
                    response, tool_index, request, ghost_vars >>

\* the final call answers: its text if any, else the apology
GraceReturns(content) ==
    /\ pc = "AwaitingGrace"
    /\ response' = [content |-> content, tool_calls |-> << >>]
    /\ Return(IF Truthy(content) THEN content ELSE ApologyMessage, "Exhausted")
    /\ UNCHANGED << tools, max_iterations, slack, supabase, threads, app, args, run, waiting, tool_schemas, messages, loop_vars,
                    tool_index, request, ghost_vars >>

\* GraceFails with no except clause around the final call: the exception
\* reaches process_user_message, which returns the error text
GraceFails_Fatal(e) ==
    /\ pc = "AwaitingGrace"
    /\ Return(ErrorMessage(Gpt4Failure(e)), "Error")
    /\ UNCHANGED << tools, max_iterations, slack, supabase, threads, app, args, run, waiting, tool_schemas, messages, loop_vars,
                    response, tool_index, request, ghost_vars >>

\* the final call raises: the exception is logged, the apology returned
GraceFails(e) ==
    /\ pc = "AwaitingGrace"
    /\ Return(ApologyMessage, "Exhausted")
    /\ UNCHANGED << tools, max_iterations, slack, supabase, threads, app, args, run, waiting, tool_schemas, messages, loop_vars,
                    response, tool_index, request, ghost_vars >>

(***************************************************************************)
(* The specification: any language model, any handler behaviour.           *)
(***************************************************************************)
\* the number of tool invocations the language model may request in the run
InvocationBudget ==
    IF args.context = PyNone THEN MaxInvocations ELSE MaxInvocationsWithContext

\* One response of the language model carries 1..MaxCallsPerTurn tool requests.
Next ==
    \/ \E m \in UserMessages, c \in Contexts, t \in ClockValues :
          ProcessUserMessage(m, c, t)
    \/ CallModel
    \/ \E n \in 1..MaxCallsPerTurn :
          /\ issued + n <= InvocationBudget
          /\ \E reqs \in [1..n -> ToolRequests] : ModelReturnsToolCalls(reqs)
    \/ \E content \in FinalContents : ModelReturnsFinal(content)
    \/ \E e \in TransportErrors : ModelCallFails(e)
    \/ ExecuteToolCall
    \/ \E v \in HandlerValues : HandlerReturns(v)
    \/ \E e \in HandlerErrors : HandlerRaises(e)
    \/ GraceCall
    \/ ExhaustedWithoutGrace
    \/ \E content \in FinalContents : GraceReturns(content)
    \/ \E e \in TransportErrors : GraceFails(e)

Spec == Init /\ [][Next]_vars

(***************************************************************************)
(* The stub language model of the iteration-bound scenario: it requests    *)
(* one tool call on every turn of the loop and never answers in the loop;  *)
(* the tool always succeeds.  The orchestrator runs with max_iterations as *)
(* the code sets it.                                                       *)
(***************************************************************************)
StubRequest == [name |-> "get_client_mapping", arguments |-> ArgsClientName]
StubValue == PyDict(<< << Str("name"), Str("Acme") >> >>)

StubNext ==
    \/ \E m \in UserMessages, c \in Contexts, t \in ClockValues :
          ProcessUserMessage(m, c, t)
    \/ CallModel
    \/ ModelReturnsToolCalls(<< StubRequest >>)
    \/ ExecuteToolCall
    \/ HandlerReturns(StubValue)
    \/ GraceCall
    \/ \E content \in FinalContents : GraceReturns(content)
    \/ \E e \in TransportErrors : GraceFails(e)

StubSpec == ReferenceInit /\ [][StubNext]_vars

(***************************************************************************)
(* Argument payloads that do and do not bind to the handler: the language  *)
(* model calls a handler with named parameters only and the one handler    *)
(* that takes **filters.                                                   *)
(***************************************************************************)
\* tool invocations the language model may request in one run
MaxBindInvocations == 2

BindRequests ==
    { [name |-> "get_client_mapping", arguments |-> ArgsClientName],
      [name |-> "get_client_mapping", arguments |-> ArgsEmpty],
      [name |-> "get_client_mapping", arguments |-> ArgsUndeclared],
      [name |-> "get_client_mapping", arguments |-> ArgsNotMapping],
      [name |-> "get_client_mapping", arguments |-> ArgsNull],
      [name |-> "get_tasks_with_time_spent", arguments |-> ArgsListId],
      [name |-> "get_tasks_with_time_spent", arguments |-> ArgsListIdStatus],
      [name |-> "get_tasks_with_time_spent", arguments |-> ArgsUndeclared],
      [name |-> "get_tasks_with_time_spent", arguments |-> ArgsNotMapping] }

BindNext ==
    \/ \E m \in UserMessages, t \in ClockValues : ProcessUserMessage(m, PyNone, t)
    \/ CallModel
    \/ \E n \in 1..MaxBindInvocations :
          /\ issued + n <= MaxBindInvocations
          /\ \E reqs \in [1..n -> BindRequests] : ModelReturnsToolCalls(reqs)
    \/ \E content \in FinalContents : ModelReturnsFinal(content)
    \/ \E e \in TransportErrors : ModelCallFails(e)
    \/ ExecuteToolCall
    \/ HandlerReturns(StubValue)
    \/ \E e \in HandlerErrors : HandlerRaises(e)
    \/ GraceCall
    \/ ExhaustedWithoutGrace
    \/ \E content \in FinalContents : GraceReturns(content)
    \/ \E e \in TransportErrors : GraceFails(e)

BindSpec == Init /\ [][BindNext]_vars

(***************************************************************************)
(* Failures inside process_user_message: a registry holding a tool whose   *)
(* func is not callable, a handler value json.dumps cannot serialize, a    *)
(* failing model call.                                                     *)
(***************************************************************************)
BrokenRegistry ==
    << ToolDefinition("get_client_mapping", << Req("client_name", TStr) >>,
                      << "Retrieve client mapping information by name from Supabase." >>),
       ToolDefinition("not_callable", NoSignature, << >>) >>

\* handler values: a dict and a list holding a datetime, a datetime
DictWithDateTime ==
    PyDict(<< << Str("name"), Str("Acme") >>, << Str("created_at"), DateTimeValue >> >>)
ListWithDateTime == PyList(<< Str("Acme"), Str("Globex"), DateTimeValue >>)
DateTimeObject == [type |-> "datetime", items |-> Str("2025-09-01 10:00:00")]

ErrorInit ==
    /\ tools \in { register_tools, BrokenRegistry }
    /\ NoCallStarted
    /\ max_iterations \in 1..MaxIterations

ErrorNext ==
    \/ \E m \in UserMessages, t \in ClockValues : ProcessUserMessage(m, PyNone, t)
    \/ CallModel
    \/ \E n \in 1..MaxCallsPerTurn :
          /\ issued + n <= MaxInvocations
          /\ ModelReturnsToolCalls([i \in 1..n |-> StubRequest])
    \/ \E content \in FinalContents : ModelReturnsFinal(content)
    \/ \E e \in TransportErrors : ModelCallFails(e)
    \/ ExecuteToolCall
    \/ HandlerReturns(StubValue)
    \/ HandlerReturns(DictWithDateTime)
    \/ HandlerReturns(ListWithDateTime)
    \/ HandlerReturns(DateTimeObject)
    \/ \E e \in HandlerErrors : HandlerRaises(e)
    \/ GraceCall
    \/ ExhaustedWithoutGrace
    \/ \E content \in FinalContents : GraceReturns(content)
    \/ \E e \in TransportErrors : GraceFails(e)

ErrorSpec == ErrorInit /\ [][ErrorNext]_vars

\* handler bodies entered so far
HandlerCalls ==
    Cardinality({ i \in 1..Len(invocations) : invocations[i].handler_ran })
    + (IF pc = "InHandler" THEN 1 ELSE 0)

(***************************************************************************)
(* Two calls of process_user_message on the one orchestrator.  The calls   *)
(* are coroutines on one event loop: one runs at a time, and it gives way  *)
(* to the other only where it awaits the language model or a handler.  The *)
(* variables of the call hold the locals of the running call, waiting      *)
(* holds the locals of the other; the registry, max_iterations and the     *)
(* ids the language model assigns belong to no call.                       *)
(***************************************************************************)
\* the locals of the running call
Frame ==
    [pc |-> pc, args |-> args, tool_schemas |-> tool_schemas, messages |-> messages,
     iteration |-> iteration, last_successful_tools |-> last_successful_tools,
     current_iteration_tools |-> current_iteration_tools, response |-> response,
     tool_index |-> tool_index, request |-> request, result |-> result,
     outcome |-> outcome, model_calls |-> model_calls, grace_calls |-> grace_calls,
     model_failed |-> model_failed, invocations |-> invocations]

\* where a call gives way: before it starts, at an await that suspends, after it returned
SuspensionPoints == { "idle", "AwaitingModel", "InHandler", "AwaitingGrace", "returned" }

\* Switch with messages kept by the orchestrator instead of the call: the
\* resumed call goes on with the conversation of the suspended one
Switch_SharedMessages ==
    /\ pc \in SuspensionPoints
    /\ waiting' = Frame
    /\ run' = 3 - run
    /\ pc' = waiting.pc
    /\ args' = waiting.args
    /\ tool_schemas' = waiting.tool_schemas
    /\ messages' = messages
    /\ iteration' = waiting.iteration
    /\ last_successful_tools' = waiting.last_successful_tools
    /\ current_iteration_tools' = waiting.current_iteration_tools
    /\ response' = waiting.response
    /\ tool_index' = waiting.tool_index
    /\ request' = waiting.request
    /\ result' = waiting.result
    /\ outcome' = waiting.outcome
    /\ model_calls' = waiting.model_calls
    /\ grace_calls' = waiting.grace_calls
    /\ model_failed' = waiting.model_failed
    /\ invocations' = waiting.invocations
    /\ UNCHANGED << tools, max_iterations, slack, supabase, threads, app, issued >>

\* the running call is suspended and the other call resumes with its own locals
Switch ==
    /\ pc \in SuspensionPoints
    /\ waiting' = Frame
    /\ run' = 3 - run
    /\ pc' = waiting.pc
    /\ args' = waiting.args
    /\ tool_schemas' = waiting.tool_schemas
    /\ messages' = waiting.messages
    /\ iteration' = waiting.iteration
    /\ last_successful_tools' = waiting.last_successful_tools
    /\ current_iteration_tools' = waiting.current_iteration_tools
    /\ response' = waiting.response
    /\ tool_index' = waiting.tool_index
    /\ request' = waiting.request
    /\ result' = waiting.result
    /\ outcome' = waiting.outcome
    /\ model_calls' = waiting.model_calls
    /\ grace_calls' = waiting.grace_calls
    /\ model_failed' = waiting.model_failed
    /\ invocations' = waiting.invocations
    /\ UNCHANGED << tools, max_iterations, slack, supabase, threads, app, issued >>

\* the user message of each of the two calls
ConcurrentUserMessage(r) ==
    IF r = 1 THEN Str("What's 2+2?") ELSE Str("Who is the client of channel C042?")

\* what datetime.now() gives when a call reads it: the calls start at
\* different times or within the same second
ConcurrentClockValues == { ConstructionTime, Str("2025-09-01 10:00:00") }

ConcurrentRequests ==
    { [name |-> "get_client_mapping", arguments |-> ArgsClientName],
      [name |-> "doesNotExist", arguments |-> ArgsEmpty] }

ConcurrentNext ==
    \/ \E t \in ConcurrentClockValues :
          ProcessUserMessage(ConcurrentUserMessage(run), PyNone, t)
    \/ CallModel
    \/ \E req \in ConcurrentRequests :
          /\ issued + 1 <= MaxConcurrentInvocations
          /\ ModelReturnsToolCalls(<< req >>)
    \/ ModelReturnsFinal(Str("Acme is the client."))
    \/ \E e \in TransportErrors : ModelCallFails(e)
    \/ ExecuteToolCall
    \/ HandlerReturns(StubValue)
    \/ \E e \in HandlerErrors : HandlerRaises(e)
    \/ GraceCall
    \/ ExhaustedWithoutGrace
    \/ GraceReturns(Str("Acme is the client."))
    \/ \E e \in TransportErrors : GraceFails(e)
    \/ Switch

ConcurrentSpec == Init /\ [][ConcurrentNext]_vars

(***************************************************************************)
(* Schema derivation for handlers of any signature: the server is          *)
(* constructed with the registered tools, or with one handler whose first  *)
(* parameter has an annotation and a default drawn from the forms below,   *)
(* and a call of process_user_message derives the schemas and gives them   *)
(* to the language model.                                                  *)
(***************************************************************************)
ScalarAnnotations == { TStr, TInt, TFloat, TBool }

\* annotations that are no generic alias: classes, Any, a missing annotation
PlainAnnotations ==
    ScalarAnnotations \cup { TAny, TEmpty, TNoneType, TListClass, TDictClass }

\* List[T], Dict[K, V] and Tuple[T] of plain types
GenericAnnotations ==
    { TList(t) : t \in ScalarAnnotations \cup { TAny, TDictClass } }
    \cup { TList(TList(t)) : t \in ScalarAnnotations }
    \cup { TDict(TStr, v) : v \in { TAny, TStr, TInt } }
    \cup { TList(TDict(TStr, TAny)), TTuple(TInt), TTuple(TStr) }

\* Optional[T], List[Optional[T]] and the unions of two types, with and without None
UnionAnnotations ==
    { TOptional(t) : t \in (PlainAnnotations \ { TNoneType, TEmpty }) \cup GenericAnnotations }
    \cup { TList(TOptional(t)) : t \in ScalarAnnotations }
    \cup { << "Union", TStr, t >> : t \in { TInt, TFloat, TList(TStr) } }
    \cup { << "Union", TStr, t, TNoneType >> : t \in { TInt, TFloat, TList(TStr) } }

ProbeAnnotations == PlainAnnotations \cup GenericAnnotations \cup UnionAnnotations

\* the parameters that may follow the first one
ProbeRest == { << >>, << Opt("limit", TInt) >>, << VarKeyword("filters") >> }

ProbeTools ==
    { ToolDefinition("probe", << Param("value", t, d) >> \o rest, << "Probe." >>) :
         t \in ProbeAnnotations, d \in BOOLEAN, rest \in ProbeRest }

SchemaInit ==
    /\ \/ tools = register_tools
       \/ \E tool \in ProbeTools : tools = RegisterAll(<< >>, << tool >>)
    /\ NoCallStarted
    /\ max_iterations = ReferenceMaxIterations

SchemaNext ==
    \/ \E m \in UserMessages, t \in ClockValues : ProcessUserMessage(m, PyNone, t)
    \/ CallModel
    \/ \E content \in FinalContents : ModelReturnsFinal(content)

SchemaSpec == SchemaInit /\ [][SchemaNext]_vars

(***************************************************************************)
(* SlackBotHandler: one message posted in a channel the bot is in.  Slack  *)
(* delivers a message event for it and, when it mentions the bot, an       *)
(* app_mention event as well; each event is handled by its own coroutine,  *)
(* handle_app_mention (1) and handle_thread_message (2), and the two give  *)
(* way to each other where they await.  The call of process_user_message   *)
(* writes nothing the handlers read, so here it is the await it is to its  *)
(* caller: it starts, and it returns a text.                               *)
(***************************************************************************)
AppMention == 1
ThreadMessage == 2

\* the variables of the orchestrator and of the server
call_vars == << tools, max_iterations, args, run, waiting, pc, tool_schemas, messages,
                iteration, last_successful_tools, current_iteration_tools, response,
                tool_index, request, result, outcome, issued, model_calls,
                grace_calls, model_failed, invocations >>

\* what a user or a bot may post: with or without a mention of the bot, at
\* the top of the channel or in a thread, with or without other words
InboundMessages ==
    [mention : BOOLEAN, in_thread : BOOLEAN, from_bot : BOOLEAN, words : BOOLEAN,
     subtype : { "none", "bot_message", "file_share" }]

\* what conversations_replies may show of the thread: a message that
\* mentions the bot, a message of the bot, a message of another bot
ThreadHistories == [mentioned : BOOLEAN, bot_replied : BOOLEAN, other_bot : BOOLEAN]

\* the loop over thread_history: the text holds "<@U08S70BV201>", or the
\* message has a bot_id, or its user is "U08S70BV201"
bot_in_thread(history) ==
    history.mentioned \/ history.other_bot \/ history.bot_replied

\* self._clean_message_text(text).strip(): the text without the mentions
clean_text_nonempty == slack.msg.words

\* text.strip() of the text as posted
text_nonempty == slack.msg.mention \/ slack.msg.words

\* say(...) or chat_update(...): a message of the bot appears in the thread
Post(h, kind) == Append(slack.posted, [by |-> h, kind |-> kind])

SlackInit ==
    /\ tools = register_tools
    /\ max_iterations = ReferenceMaxIterations
    /\ \E msg \in InboundMessages : slack = [NoEvent EXCEPT !.msg = msg]
    /\ supabase = NoCache
    /\ threads = NoThreads
    /\ app = NotStarted
    /\ args = NoArgs
    /\ run = 1
    /\ waiting = NoCall
    /\ pc = "idle"
    /\ tool_schemas = << >>
    /\ messages = << >>
    /\ iteration = 0
    /\ last_successful_tools = << >>
    /\ current_iteration_tools = << >>
    /\ response = NoResponse
    /\ tool_index = 0
    /\ request = NoRequest
    /\ result = None
    /\ outcome = "none"
    /\ issued = 0
    /\ model_calls = 0
    /\ grace_calls = 0
    /\ model_failed = FALSE
    /\ invocations = << >>

\* Slack delivers the app_mention event of a message that mentions the bot:
\* handle_app_mention starts and awaits ack()
DeliverAppMention ==
    /\ slack.msg.mention
    /\ slack.pc[AppMention] = "none"
    /\ slack' = [slack EXCEPT !.pc[AppMention] = "acked"]
    /\ UNCHANGED << call_vars, supabase, threads, app >>

\* Slack delivers the message event of a message: handle_thread_message
\* starts and awaits ack()
DeliverMessage ==
    /\ slack.pc[ThreadMessage] = "none"
    /\ slack' = [slack EXCEPT !.pc[ThreadMessage] = "acked"]
    /\ UNCHANGED << call_vars, supabase, threads, app >>

\* handle_app_mention after ack(): the greeting for a mention without words,
\* else the loading message
AppMentionStarts ==
    /\ slack.pc[AppMention] = "acked"
    /\ IF ~clean_text_nonempty
       THEN slack' = [slack EXCEPT !.pc[AppMention] = "done",
                                   !.posted = Post(AppMention, "greeting")]
       ELSE slack' = [slack EXCEPT !.pc[AppMention] = "loading",
                                   !.posted = Post(AppMention, "loading")]
    /\ UNCHANGED << call_vars, supabase, threads, app >>

\* handle_thread_message after ack(): messages of bots, file shares and
\* messages outside a thread are ignored, for the others the thread history
\* is fetched
ThreadMessageStarts ==
    /\ slack.pc[ThreadMessage] = "acked"
    /\ IF \/ slack.msg.from_bot
          \/ slack.msg.subtype = "bot_message"
          \/ slack.msg.subtype = "file_share"
          \/ ~slack.msg.in_thread
       THEN slack' = [slack EXCEPT !.pc[ThreadMessage] = "done"]
       ELSE slack' = [slack EXCEPT !.pc[ThreadMessage] = "history"]
    /\ UNCHANGED << call_vars, supabase, threads, app >>

\* conversations_replies returns the messages of the thread
HistoryReturns(history) ==
    /\ slack.pc[ThreadMessage] = "history"
    /\ IF bot_in_thread(history) /\ text_nonempty
       THEN slack' = [slack EXCEPT !.history = history,
                                   !.pc[ThreadMessage] = "loading",
                                   !.posted = Post(ThreadMessage, "loading")]
       ELSE slack' = [slack EXCEPT !.history = history,
                                   !.pc[ThreadMessage] = "done"]
    /\ UNCHANGED << call_vars, supabase, threads, app >>

\* conversations_replies raises: the error is logged
HistoryFails ==
    /\ slack.pc[ThreadMessage] = "history"
    /\ slack' = [slack EXCEPT !.pc[ThreadMessage] = "done"]
    /\ UNCHANGED << call_vars, supabase, threads, app >>

\* _process_message: the contexts are fetched and process_user_message is called
StartProcess(h) ==
    /\ slack.pc[h] = "loading"
    /\ slack' = [slack EXCEPT !.pc[h] = "processing",
                               !.process_calls = slack.process_calls + 1]
    /\ UNCHANGED << call_vars, supabase, threads, app >>

\* _process_message raises before the orchestrator is called: response is
\* not bound, so the fallback say(response) raises too; handle_app_mention
\* then says the apology, handle_thread_message logs
ProcessMessageRaises(h) ==
    /\ slack.pc[h] = "loading"
    /\ IF h = AppMention
       THEN slack' = [slack EXCEPT !.pc[h] = "done", !.posted = Post(h, "apology")]
       ELSE slack' = [slack EXCEPT !.pc[h] = "done"]
    /\ UNCHANGED << call_vars, supabase, threads, app >>

\* process_user_message returns its text
ProcessReturns(h) ==
    /\ slack.pc[h] = "processing"
    /\ slack' = [slack EXCEPT !.pc[h] = "updating"]
    /\ UNCHANGED << call_vars, supabase, threads, app >>

\* chat_update puts the response in the place of the loading message
UpdateLoadingMessage(h) ==
    /\ slack.pc[h] = "updating"
    /\ slack' = [slack EXCEPT
                    !.pc[h] = "done",
                    !.posted = [i \in 1..Len(slack.posted) |->
                                   IF slack.posted[i] = [by |-> h, kind |-> "loading"]
                                   THEN [by |-> h, kind |-> "answer"]
                                   ELSE slack.posted[i]]]
    /\ UNCHANGED << call_vars, supabase, threads, app >>

\* chat_update raises: the response is sent as a new message of the thread
UpdateFails(h) ==
    /\ slack.pc[h] = "updating"
    /\ slack' = [slack EXCEPT !.pc[h] = "done", !.posted = Post(h, "answer")]
    /\ UNCHANGED << call_vars, supabase, threads, app >>

SlackNext ==
    \/ DeliverAppMention
    \/ DeliverMessage
    \/ AppMentionStarts
    \/ ThreadMessageStarts
    \/ \E history \in ThreadHistories : HistoryReturns(history)
    \/ HistoryFails
    \/ \E h \in { AppMention, ThreadMessage } : StartProcess(h)
    \/ \E h \in { AppMention, ThreadMessage } : ProcessMessageRaises(h)
    \/ \E h \in { AppMention, ThreadMessage } : ProcessReturns(h)
    \/ \E h \in { AppMention, ThreadMessage } : UpdateLoadingMessage(h)
    \/ \E h \in { AppMention, ThreadMessage } : UpdateFails(h)

SlackSpec == SlackInit /\ [][SlackNext]_vars

(***************************************************************************)
(* SlackBotApplication: run, startup and shutdown.  started lists the      *)
(* components startup has initialised, closed the components shutdown has  *)
(* stopped or closed, both in order; failed says that run ended with the   *)
(* exception of startup.                                                   *)
(***************************************************************************)
\* Number of signals the process receives.
MaxSignals == 2
\* Number of calls of shutdown.
MaxShutdownCalls == 3

Outcomes == { "returns", "raises" }

app_frame == << call_vars, slack, supabase, threads >>

\* run: the signal handlers are installed and startup is awaited
Run ==
    /\ app.pc = "created"
    /\ app' = [app EXCEPT !.pc = "init_mcp_server"]
    /\ UNCHANGED app_frame

\* signal_handler: self._shutdown_event.set()
Signal ==
    /\ app.pc \notin { "created", "ended" }
    /\ app.signals < MaxSignals
    /\ app' = [app EXCEPT !.shutdown_event = TRUE, !.signals = @ + 1]
    /\ UNCHANGED app_frame

\* startup: get_mcp_server() and get_tool_schemas()
InitMcpServer(how) ==
    /\ app.pc = "init_mcp_server"
    /\ IF how = "returns"
       THEN app' = [app EXCEPT !.pc = "init_orchestrator",
                               !.started = Append(@, "mcp_server")]
       ELSE app' = [app EXCEPT !.pc = "startup_raised"]
    /\ UNCHANGED app_frame

\* startup: get_llm_orchestrator()
InitOrchestrator ==
    /\ app.pc = "init_orchestrator"
    /\ app' = [app EXCEPT !.pc = "start_slack_bot",
                           !.started = Append(@, "orchestrator")]
    /\ UNCHANGED app_frame

\* startup: await start_slack_bot(); self.running = True
StartSlackBot(how) ==
    /\ app.pc = "start_slack_bot"
    /\ IF how = "returns"
       THEN app' = [app EXCEPT !.pc = "waiting", !.running = TRUE,
                               !.started = Append(@, "slack_bot")]
       ELSE app' = [app EXCEPT !.pc = "startup_raised"]
    /\ UNCHANGED app_frame

\* run: await self._shutdown_event.wait() returns, finally: shutdown()
WaitReturns ==
    /\ app.pc = "waiting"
    /\ app.shutdown_event
    /\ app' = [app EXCEPT !.pc = "shutdown"]
    /\ UNCHANGED app_frame

\* run: startup has raised; the exception is logged and raised again,
\* finally: shutdown()
StartupRaised ==
    /\ app.pc = "startup_raised"
    /\ app' = [app EXCEPT !.pc = "shutdown", !.failed = TRUE]
    /\ UNCHANGED app_frame

\* shutdown: if not self.running: return
ShutdownStarts ==
    /\ app.pc = "shutdown"
    /\ IF ~app.running
       THEN app' = [app EXCEPT !.pc = "ended", !.shutdown_calls = @ + 1]
       ELSE app' = [app EXCEPT !.pc = "stop_slack_bot", !.shutdown_calls = @ + 1]
    /\ UNCHANGED app_frame

\* shutdown: await stop_slack_bot(); SlackBotHandler.stop logs what it catches
StopSlackBot ==
    /\ app.pc = "stop_slack_bot"
    /\ app' = [app EXCEPT !.pc = "close_orchestrator",
                           !.closed = Append(@, "slack_bot")]
    /\ UNCHANGED app_frame

\* shutdown: await orchestrator.close(); an exception ends shutdown
CloseOrchestrator(how) ==
    /\ app.pc = "close_orchestrator"
    /\ IF how = "returns"
       THEN app' = [app EXCEPT !.pc = "close_mcp_server",
                               !.closed = Append(@, "orchestrator")]
       ELSE app' = [app EXCEPT !.pc = "ended"]
    /\ UNCHANGED app_frame

\* shutdown: await mcp_server.close(); self.running = False
CloseMcpServer(how) ==
    /\ app.pc = "close_mcp_server"
    /\ IF how = "returns"
       THEN app' = [app EXCEPT !.pc = "ended", !.running = FALSE,
                               !.closed = Append(@, "mcp_server")]
       ELSE app' = [app EXCEPT !.pc = "ended"]
    /\ UNCHANGED app_frame

\* shutdown is called once more after run has ended
ShutdownAgain ==
    /\ app.pc = "ended"
    /\ app.shutdown_calls < MaxShutdownCalls
    /\ app' = [app EXCEPT !.pc = "shutdown"]
    /\ UNCHANGED app_frame

AppNext ==
    \/ Run
    \/ Signal
    \/ \E how \in Outcomes : InitMcpServer(how)
    \/ InitOrchestrator
    \/ \E how \in Outcomes : StartSlackBot(how)
    \/ WaitReturns
    \/ StartupRaised
    \/ ShutdownStarts
    \/ StopSlackBot
    \/ \E how \in Outcomes : CloseOrchestrator(how)
    \/ \E how \in Outcomes : CloseMcpServer(how)
    \/ ShutdownAgain

AppInit ==
    /\ Constructed
    /\ max_iterations = ReferenceMaxIterations

AppSpec == AppInit /\ [][AppNext]_vars

(***************************************************************************)
(* SlackBotHandler._update_thread_context.  An exchange is told apart by   *)
(* the number of the call that recorded it; of the response it keeps the   *)
(* first 200 characters.                                                   *)
(***************************************************************************)
\* Number of calls of _update_thread_context.
MaxExchanges == 12

\* exchanges kept per thread
ThreadContextLimit == 10
\* characters kept of a response
ResponseLimit == 200

Channels == { "C042" }
ThreadTimestamps == { "1725184800.0001", "1725184900.0002" }

\* thread_key = f"{channel_id}:{thread_ts}"
thread_key(channel_id, thread_ts) == << channel_id, ":", thread_ts >>

\* the length of the response of the n-th call
ResponseLength(n) == 40 * n

\* bot_response[:200], by its length
Truncated(length) == IF length > ResponseLimit THEN ResponseLimit ELSE length

\* KeepLast keeping the first exchanges: messages[:10]
KeepLast_First(exchanges) ==
    IF Len(exchanges) > ThreadContextLimit
    THEN SubSeq(exchanges, 1, ThreadContextLimit)
    ELSE exchanges

\* if len(messages) > 10: messages = messages[-10:]
KeepLast(exchanges) ==
    IF Len(exchanges) > ThreadContextLimit
    THEN SubSeq(exchanges, Len(exchanges) - ThreadContextLimit + 1, Len(exchanges))
    ELSE exchanges

\* SlackBotHandler._update_thread_context
update_thread_context(channel_id, thread_ts) ==
    /\ threads.calls < MaxExchanges
    /\ LET key == thread_key(channel_id, thread_ts)
           exchange == [call |-> threads.calls + 1,
                        bot_response |-> Truncated(ResponseLength(threads.calls + 1))]
           before == threads.thread_contexts[key].messages
       IN  threads' = [threads EXCEPT
                          !.thread_contexts[key] =
                               [present |-> TRUE,
                                messages |-> KeepLast(Append(before, exchange))],
                          !.recorded[key] = Append(@, exchange),
                          !.calls = @ + 1]
    /\ UNCHANGED << call_vars, slack, supabase, app >>

ThreadNext ==
    \E channel_id \in Channels, thread_ts \in ThreadTimestamps :
        update_thread_context(channel_id, thread_ts)

ThreadInit ==
    /\ Constructed
    /\ max_iterations = ReferenceMaxIterations

ThreadSpec == ThreadInit /\ [][ThreadNext]_vars

(***************************************************************************)
(* SupabaseTools: the client-mapping cache.  One dict holds the mappings   *)
(* by lower-cased client name and the list of all client names; one        *)
(* timestamp is kept for the whole dict.  A cached value is told apart by  *)
(* the version of the client_mappings table it was read from; stored is    *)
(* the clock value at which it was put into the dict, age the seconds      *)
(* since then when it is returned.                                         *)
(***************************************************************************)
\* Largest clock value, in seconds.
MaxClock == 450
\* Number of writes to the table that succeed.
MaxWrites == 1

\* config.cache_ttl_seconds, default
cache_ttl_seconds == 300

ClientNames == { "Acme", "ACME", "Globex" }
ClockSteps == { 100, 250 }
\* what the table answers: a row, no row, an exception
QueryResults == { "row", "none", "raises" }

\* f"client_mapping_{client_name.lower()}"
cache_key(client_name) ==
    IF client_name \in { "Acme", "ACME" }
    THEN "client_mapping_acme"
    ELSE "client_mapping_globex"

component_vars == << slack, threads, app >>

\* _is_cache_valid: a timestamp is set and is younger than the TTL
is_cache_valid(key) ==
    /\ supabase.cache_timestamp # NoTimestamp
    /\ supabase.now - supabase.cache_timestamp < cache_ttl_seconds

\* what a method returns from the cache
FromCache(op, key) ==
    [op |-> op, key |-> key, from_cache |-> TRUE, queried |-> FALSE,
     version |-> supabase.cache[key].version,
     age |-> supabase.now - supabase.cache[key].stored,
     empty |-> FALSE, raised |-> FALSE]

\* what a method returns after it has gone to the table
FromTable(op, key, data) ==
    [op |-> op, key |-> key, from_cache |-> FALSE, queried |-> TRUE,
     version |-> supabase.table_version, age |-> 0,
     empty |-> data = "none", raised |-> data = "raises"]

\* self._cache[cache_key] = result; self._cache_timestamp = datetime.now()
Store(key) ==
    [supabase EXCEPT
        !.cache[key] = [present |-> TRUE, version |-> supabase.table_version,
                        stored |-> supabase.now],
        !.cache_timestamp = supabase.now]

\* SupabaseTools.get_client_mapping
get_client_mapping(client_name, data) ==
    /\ LET key == cache_key(client_name)
       IN  IF is_cache_valid(key) /\ supabase.cache[key].present
           THEN supabase' = [supabase EXCEPT
                                !.returned = FromCache("get_client_mapping", key)]
           ELSE IF data = "row"
           THEN supabase' = [Store(key) EXCEPT
                                !.returned = FromTable("get_client_mapping", key, data)]
           ELSE supabase' = [supabase EXCEPT
                                !.returned = FromTable("get_client_mapping", key, data)]
    /\ UNCHANGED << call_vars, component_vars >>

\* SupabaseTools.get_all_client_names: the list is stored even when it is empty
get_all_client_names(data) ==
    /\ LET key == "all_client_names"
       IN  IF is_cache_valid(key) /\ supabase.cache[key].present
           THEN supabase' = [supabase EXCEPT
                                !.returned = FromCache("get_all_client_names", key)]
           ELSE IF data # "raises"
           THEN supabase' = [Store(key) EXCEPT
                                !.returned = FromTable("get_all_client_names", key, data)]
           ELSE supabase' = [supabase EXCEPT
                                !.returned = FromTable("get_all_client_names", key, data)]
    /\ UNCHANGED << call_vars, component_vars >>

\* Invalidate with the cache left as it is
Invalidate_Keep == supabase

\* self._cache.clear(); self._cache_timestamp = None; the table has changed
Invalidate ==
    [supabase EXCEPT
        !.cache = [k \in CacheKeys |-> Absent],
        !.cache_timestamp = NoTimestamp]

\* update_client_mapping and create_client_mapping after the table has
\* answered the write with the record, with no record, or with an exception
Written(op, key, data) ==
    IF data = "row"
    THEN [Invalidate EXCEPT
             !.table_version = supabase.table_version + 1,
             !.returned = [FromTable(op, key, data) EXCEPT
                              !.version = supabase.table_version + 1]]
    ELSE [supabase EXCEPT !.returned = FromTable(op, key, data)]

\* SupabaseTools.update_client_mapping
update_client_mapping(client_name, data) ==
    /\ data = "row" => supabase.table_version < MaxWrites
    /\ supabase' = Written("update_client_mapping", cache_key(client_name), data)
    /\ UNCHANGED << call_vars, component_vars >>

\* SupabaseTools.create_client_mapping
create_client_mapping(client_name, data) ==
    /\ data = "row" => supabase.table_version < MaxWrites
    /\ supabase' = Written("create_client_mapping", cache_key(client_name), data)
    /\ UNCHANGED << call_vars, component_vars >>

\* time passes between two calls
Tick(d) ==
    /\ supabase.now + d <= MaxClock
    /\ supabase' = [supabase EXCEPT !.now = supabase.now + d]
    /\ UNCHANGED << call_vars, component_vars >>

CacheNext ==
    \/ \E name \in ClientNames, data \in QueryResults : get_client_mapping(name, data)
    \/ \E data \in QueryResults : get_all_client_names(data)
    \/ \E name \in ClientNames, data \in QueryResults : update_client_mapping(name, data)
    \/ \E name \in ClientNames, data \in QueryResults : create_client_mapping(name, data)
    \/ \E d \in ClockSteps : Tick(d)

CacheInit ==
    /\ Constructed
    /\ max_iterations = ReferenceMaxIterations

CacheSpec == CacheInit /\ [][CacheNext]_vars

(***************************************************************************)
(* Properties.                                                             *)
(***************************************************************************)
Returned == pc = "returned"

\* the last response came from a call that offered no tool calls back
AnswerText == response.tool_calls = << >> /\ Truthy(response.content)

\* Progress of a call, as a pair ordered lexicographically: the passes of the
\* loop still allowed and the place within the pass, then the tool calls of
\* the current response still to be finished.
PassesLeft ==
    CASE pc = "idle" -> 3 * max_iterations + 4
      [] pc = "loop" -> 3 * (max_iterations - iteration) + 3
      [] pc = "AwaitingModel" -> 3 * (max_iterations - iteration) + 5
      [] pc \in { "ExecutingTools", "InHandler" } -> 3 * (max_iterations - iteration) + 4
      [] pc = "AwaitingGrace" -> 2
      [] OTHER -> 0

ToolStepsLeft ==
    IF pc \in { "ExecutingTools", "InHandler" }
    THEN 2 * (Len(response.tool_calls) - tool_index)
         + (IF pc = "ExecutingTools" THEN 1 ELSE 0)
    ELSE 0

\* C1: one process call makes at most max_iterations model calls inside the
\* loop and at most max_iterations + 1 model calls in all; it cannot run
\* forever, because every step takes it strictly closer to its return in a
\* well-founded order, and, when every model call and every handler
\* invocation returns, it is never stuck before it has returned; it returns
\* in Done, Exhausted or Error.
C1_BoundedAndTerminates ==
    /\ [](/\ model_calls <= max_iterations
          /\ grace_calls <= 1
          /\ model_calls + grace_calls <= max_iterations + 1
          /\ PassesLeft >= 0 /\ ToolStepsLeft >= 0)
    /\ [][ \/ PassesLeft' < PassesLeft
           \/ PassesLeft' = PassesLeft /\ ToolStepsLeft' < ToolStepsLeft ]_vars
    /\ [](~Returned => ENABLED Next)
    /\ [](Returned <=> outcome \in { "Done", "Exhausted", "Error" })

C1_Witness ==
    /\ Returned
    /\ outcome = "Exhausted"
    /\ model_calls = max_iterations
    /\ grace_calls = 1
    /\ max_iterations = MaxIterations

\* C2: with the stub model (a tool call on every turn of the loop, never a
\* final text) and a tool that always succeeds, the call does not stop before
\* it returns, and it returns after exactly max_iterations = 100 tool turns
\* and exactly one grace call, with the grace call's text or the apology.
C2_StubRunsToGraceCall ==
    /\ max_iterations = ReferenceMaxIterations
    /\ ~Returned => ENABLED StubNext
    /\ Returned =>
          /\ model_calls = max_iterations
          /\ grace_calls = 1
          /\ Len(invocations) = max_iterations
          /\ \A i \in 1..Len(invocations) : invocations[i].turn = i
          /\ \/ AnswerText /\ result = response.content
             \/ result = ApologyMessage

C2_Witness ==
    /\ Returned
    /\ model_calls = 100
    /\ grace_calls = 1
    /\ result = Str("Acme is the client.")

\* the tool calls of the turn numbered max_iterations that the loop recorded
\* as successful
RecordedInLastTurn ==
    { i \in 1..Len(invocations) :
         invocations[i].turn = max_iterations /\ invocations[i].recorded }

AtExhaustion == pc = "AwaitingGrace" \/ outcome = "Exhausted"

\* C3: when the bound is reached without a final answer, the grace call is
\* made if and only if the last completed turn had a successful tool
\* invocation.
C3_GraceIffLastTurnSucceeded ==
    AtExhaustion => (grace_calls = 1 <=> RecordedInLastTurn # {})

\* C4: after the loop at most one grace call is made; it is given no tools
\* and the conversation followed by the system instruction to stop calling
\* tools, and the conversation itself is left as it was; a non-empty text of
\* the grace call is what process returns.
C4_GraceCallShape ==
    /\ grace_calls <= 1
    /\ grace_calls = 1 =>
          /\ AtExhaustion
          /\ request.tools = << >>
          /\ request.messages = messages \o << Message("system", FinalInstruction) >>
    /\ (outcome = "Exhausted" /\ grace_calls = 1 /\ AnswerText) =>
          result = response.content

C4_Witness ==
    /\ outcome = "Exhausted"
    /\ grace_calls = 1
    /\ request.tools = << >>
    /\ result = Str("Acme is the client.")

\* C5: after the loop, when no grace call is made or the grace call gives no
\* text, process returns the apology; when no tool call of the run was
\* recorded as successful, exactly max_iterations model calls and no grace
\* call were made.
C5_ApologyWhenNothingToReport ==
    outcome = "Exhausted" =>
        /\ (grace_calls = 0 \/ ~AnswerText) => result = ApologyMessage
        /\ (\A i \in 1..Len(invocations) : ~invocations[i].recorded) =>
              /\ model_calls = max_iterations
              /\ grace_calls = 0
              /\ result = ApologyMessage

C5_Witness ==
    /\ outcome = "Exhausted"
    /\ invocations # << >>
    /\ \A i \in 1..Len(invocations) : ~invocations[i].recorded
    /\ grace_calls = 0
    /\ model_calls = max_iterations
    /\ result = ApologyMessage

\* C6: a model call that fails inside the loop ends the process call at once
\* with the error text: no model call and no tool call follows it.
C6_ModelFailureIsFinal ==
    [][ /\ model_failed' =>
              /\ pc' = "returned"
              /\ outcome' = "Error"
              /\ result' \notin { ApologyMessage, FallbackMessage }
              /\ \E e \in TransportErrors : result' = ErrorMessage(Gpt4Failure(e))
        /\ model_failed =>
              UNCHANGED << pc, model_calls, grace_calls, invocations, messages, result >>
      ]_vars

C6_Witness ==
    /\ model_failed
    /\ Returned
    /\ outcome = "Error"
    /\ model_calls = 2
    /\ Len(invocations) = 1

\* a step that completes a tool call
ToolCallCompletes == Len(invocations') = Len(invocations) + 1

C8_DirectAnswer ==
    /\ [][ /\ (pc = "AwaitingModel" /\ response' # response
                  /\ response'.tool_calls = << >>) =>
                 (pc' = "returned" /\ outcome' = "Done")
           /\ outcome = "Done" => UNCHANGED vars
         ]_vars
    /\ [](outcome = "Done" =>
            /\ Returned
            /\ grace_calls = 0
            /\ response.tool_calls = << >>
            /\ Truthy(response.content) => result = response.content
            /\ issued = 0 => (model_calls = 1 /\ invocations = << >> /\ HandlerCalls = 0))

C8_Witness ==
    /\ outcome = "Done"
    /\ model_calls = 1
    /\ issued = 0
    /\ HandlerCalls = 0
    /\ result = Str("Acme is the client.")

\* C9: a response without tool calls and without text makes process return
\* the fallback message, which is not the exhaustion apology; no model call
\* and no tool call follows.
C9_EmptyAnswerFallback ==
    /\ [][ (outcome = "Done" /\ ~Truthy(response.content)) =>
              UNCHANGED << pc, model_calls, grace_calls, invocations, result >>
         ]_vars
    /\ []((outcome = "Done" /\ ~Truthy(response.content)) =>
            /\ Returned
            /\ result = FallbackMessage
            /\ result # ApologyMessage
            /\ grace_calls = 0)

C9_Witness ==
    /\ outcome = "Done"
    /\ response.content = << >>
    /\ result = FallbackMessage
    /\ model_calls = 2

\* json.dumps({"name": "Acme"})
AcmeJson == << "{", "\"", "name", "\"", ": ", "\"", "Acme", "\"", "}" >>

\* the run had one tool call, to a registered tool whose handler returned
\* {"name": "Acme"}
SingleLookup ==
    /\ Len(invocations) = 1
    /\ invocations[1].kind = "ok"
    /\ invocations[1].handler_ran
    /\ invocations[1].result = StubValue

\* C10: single tool round trip: after one call of a registered tool whose
\* handler returned {"name": "Acme"}, the next model call is given the
\* conversation with the tool message of that call id carrying the JSON text
\* of the value, right after the assistant message that requested it; when
\* the second response is a text, process returns it after two model calls
\* and one handler call.
C10_SingleToolRoundTrip ==
    /\ (SingleLookup /\ issued = 1 /\ model_calls = 2) =>
          LET n == Len(request.messages)
          IN  /\ request.messages = messages
              /\ request.messages[n] = ToolMessage(invocations[1].id, AcmeJson)
              /\ request.messages[n - 1].role = "assistant"
              /\ Len(request.messages[n - 1].tool_calls) = 1
              /\ request.messages[n - 1].tool_calls[1].id = invocations[1].id
              /\ request.tools # << >>
    /\ (SingleLookup /\ outcome = "Done" /\ Truthy(response.content)) =>
          /\ result = response.content
          /\ model_calls = 2
          /\ HandlerCalls = 1

C10_Witness ==
    /\ SingleLookup
    /\ outcome = "Done"
    /\ model_calls = 2
    /\ HandlerCalls = 1
    /\ invocations[1].name = "get_client_mapping"
    /\ result = Str("Acme is the client.")

\* the tool messages of the conversation, in order
ToolMessages == SelectSeq(messages, LAMBDA msg : msg.role = "tool")

\* the positions of the assistant messages that request tool calls
RequestingPositions ==
    { p \in 1..Len(messages) :
         messages[p].role = "assistant" /\ messages[p].tool_calls # << >> }

\* the tool calls of the current response are being executed
TurnInProgress == pc \in { "ExecutingTools", "InHandler" }

\* C11: the tool messages of a turn follow the assistant message that
\* requested them in the order of its tool calls, the k-th tool message
\* carrying the id of the k-th tool call, whether the call succeeded or
\* failed; a finished turn has one tool message for every tool call, and the
\* tool messages of the run are the executed tool calls in order, each with
\* the text of its own result.
C11_ToolResultsInRequestOrder ==
    /\ \A p \in RequestingPositions :
          LET calls == messages[p].tool_calls
              last == \A q \in RequestingPositions : q <= p
              answered == IF last /\ TurnInProgress
                          THEN tool_index - 1
                          ELSE Len(calls)
          IN  /\ p + answered <= Len(messages)
              /\ \A k \in 1..answered :
                    /\ messages[p + k].role = "tool"
                    /\ messages[p + k].tool_call_id = calls[k].id
              /\ p + answered < Len(messages) =>
                    messages[p + answered + 1].role # "tool"
    /\ Len(ToolMessages) = Len(invocations)
    /\ \A i \in 1..Len(invocations) :
          /\ ToolMessages[i].tool_call_id = invocations[i].id
          /\ ToolMessages[i].content = ToolContent(invocations[i].result)

C11_Witness ==
    /\ pc = "loop"
    /\ Len(invocations) = 3
    /\ \A i \in 1..3 : invocations[i].turn = 1
    /\ invocations[1].kind = "InvalidArguments"
    /\ invocations[2].kind = "ok" /\ invocations[2].recorded
    /\ invocations[3].kind = "CapabilityExecutionError" /\ invocations[3].handler_ran
    /\ Len(ToolMessages) = 3

\* s is an initial part of t
IsPrefix(s, t) == Len(s) <= Len(t) /\ SubSeq(t, 1, Len(s)) = s

\* the ids of the tool calls requested by the assistant messages before position p
RequestedBefore(p) ==
    UNION { { messages[q].tool_calls[k].id : k \in 1..Len(messages[q].tool_calls) } :
               q \in { q \in 1..(p - 1) : messages[q].role = "assistant" } }

\* C12: every tool message of the conversation carries the id of a tool call
\* requested by an assistant message at an earlier position; from the start
\* of the loop on, a step leaves the conversation as it is or appends to it:
\* no message is removed, moved or rewritten, the grace call included.
C12_ToolResultsReferenceEarlierRequests ==
    /\ [](\A p \in 1..Len(messages) :
            messages[p].role = "tool" => messages[p].tool_call_id \in RequestedBefore(p))
    /\ [][pc # "idle" => IsPrefix(messages, messages')]_vars

C12_Witness ==
    /\ pc = "AwaitingGrace"
    /\ Cardinality(RequestingPositions) = 2
    /\ Len(ToolMessages) = 3
    /\ Len(request.messages) = Len(messages) + 1

\* text m occurs in text
Contains(text, m) ==
    \E i \in 1..(Len(text) - Len(m) + 1) : SubSeq(text, i, i + Len(m) - 1) = m

\* the executed tool calls whose handler raised
RaisedInHandler ==
    { i \in 1..Len(invocations) :
         invocations[i].handler_ran /\ invocations[i].kind = "CapabilityExecutionError" }

\* C13: a handler that raises an error with message m makes the tool call
\* return a dict whose only key is "error" and whose text contains m; that
\* dict is the content of the tool message of the call; the exception does
\* not reach the loop: the run does not end in Error because of it.
C13_HandlerErrorBecomesEnvelope ==
    /\ \A i \in RaisedInHandler :
          LET envelope == invocations[i].result
          IN  /\ envelope.type = "dict"
              /\ DictKeys(envelope) = { Str("error") }
              /\ \E m \in HandlerErrors : Contains(DictGet(envelope, Str("error")), m)
              /\ ~invocations[i].recorded
              /\ ToolMessages[i].content = JsonDumps(envelope)
    /\ outcome = "Error" =>
          /\ model_failed
          /\ \A m \in HandlerErrors : ~Contains(result, m)

C13_Witness ==
    /\ pc = "AwaitingModel"
    /\ model_calls = 2
    /\ RaisedInHandler = { 1 }
    /\ Contains(messages[Len(messages)].content, Str("boom"))

\* the executed tool calls whose argument payload did not decode
Undecodable ==
    { i \in 1..Len(invocations) :
         \E k \in 1..Len(messages) :
            /\ messages[k].role = "assistant"
            /\ \E j \in 1..Len(messages[k].tool_calls) :
                  /\ messages[k].tool_calls[j].id = invocations[i].id
                  /\ ~JsonLoads(messages[k].tool_calls[j].arguments).ok }

\* C14: a tool call whose argument payload does not decode returns the
\* envelope {"error": "Invalid tool arguments: ..."} whatever its tool name,
\* registered or not: the registry is not searched and no handler body runs;
\* nothing is raised, and the envelope is the content of the call's tool
\* message, after which the loop goes on.
C14_UndecodableArguments ==
    /\ \A i \in Undecodable :
          LET inv == invocations[i]
          IN  /\ inv.kind = "InvalidArguments"
              /\ ~inv.handler_ran
              /\ ~inv.recorded
              /\ inv.result = InvalidToolArguments(JsonLoads(ArgsTruncated).error)
              /\ ~Contains(DictGet(inv.result, Str("error")), Str("not found"))
              /\ ToolMessages[i].tool_call_id = inv.id
              /\ ToolMessages[i].content = JsonDumps(inv.result)
    /\ \A i \in 1..Len(invocations) :
          invocations[i].kind = "InvalidArguments" => i \in Undecodable
    /\ pc = "InHandler" => JsonLoads(response.tool_calls[tool_index].arguments).ok
    /\ (Undecodable # {} /\ outcome = "Error") => model_failed

C14_Witness ==
    /\ pc = "AwaitingModel"
    /\ model_calls = 2
    /\ \E i, j \in Undecodable :
          /\ invocations[i].name = "doesNotExist"
          /\ invocations[j].name = "get_client_mapping"
    /\ request.messages = messages

\* the executed tool calls whose tool name is not in the registry
UnknownRequested ==
    { i \in 1..Len(invocations) :
         \A k \in 1..Len(tools) : tools[k].name # invocations[i].name }

\* the envelope of a tool call to a name the registry does not have
UnknownCapabilityEnvelope(tool_name) ==
    ErrorEnvelope(Str("Tool execution failed: ") \o Str("Tool call failed: ")
                  \o Str("Tool '") \o Str(tool_name) \o Str("' not found"))

\* a model call has been made since tool call i was finished
ModelCalledAfter(i) ==
    \/ invocations[i].turn < iteration
    \/ grace_calls = 1

\* tool call i ran no handler, and its envelope is the content of a tool
\* message with its id, which every later model call is given
AnsweredWithoutHandler(i, envelope) ==
    /\ ~invocations[i].handler_ran
    /\ invocations[i].result = envelope
    /\ ToolMessages[i] = ToolMessage(invocations[i].id, JsonDumps(envelope))
    /\ ModelCalledAfter(i) =>
          \E p \in 1..Len(request.messages) : request.messages[p] = ToolMessages[i]

\* C15 as stated: every tool call to a name that is not in the registry runs
\* no handler and is answered by the UnknownCapability envelope, in a tool
\* message with the id of the request that the next model call is given.
C15_UnknownToolAsStated ==
    \A i \in UnknownRequested :
        /\ invocations[i].kind = "UnknownCapability"
        /\ AnsweredWithoutHandler(i, UnknownCapabilityEnvelope(invocations[i].name))

\* C15, amended: a tool call to a name that is not in the registry runs no
\* handler; when its argument payload decodes it is answered by the
\* UnknownCapability envelope, and when it does not by the InvalidArguments
\* envelope; the envelope is the content of a tool message with the id of
\* the request, and the next model call is given a conversation with it.
C15_UnknownToolAnswered ==
    \A i \in UnknownRequested :
        IF i \in Undecodable
        THEN /\ invocations[i].kind = "InvalidArguments"
             /\ AnsweredWithoutHandler(i,
                    InvalidToolArguments(JsonLoads(ArgsTruncated).error))
        ELSE /\ invocations[i].kind = "UnknownCapability"
             /\ AnsweredWithoutHandler(i,
                    UnknownCapabilityEnvelope(invocations[i].name))

C15_Witness ==
    /\ pc = "AwaitingModel"
    /\ model_calls = 2
    /\ Len(invocations) = 1
    /\ UnknownRequested = { 1 }
    /\ invocations[1].kind = "UnknownCapability"
    /\ request.messages[Len(request.messages)] = ToolMessages[1]
    /\ Contains(ToolMessages[1].content, Str("doesNotExist"))

\* no two tools of the registry have the same name
NamesUnique(registry) ==
    \A i, j \in 1..Len(registry) : registry[i].name = registry[j].name => i = j

ConstructedNamesUnique ==
    /\ Len(register_tools) = 21
    /\ NamesUnique(register_tools)
    /\ \A i \in 1..Len(register_tools) :
          FindTool(register_tools, register_tools[i].name) = i

ConstructedSchemasInOrder ==
    LET schemas == get_tool_schemas(RegisteredTools)
    IN  /\ Len(schemas) = Len(RegisteredTools)
        /\ \A i \in 1..Len(RegisteredTools) :
              /\ schemas[i].name = RegisteredTools[i].name
              /\ schemas[i].description = RegisteredTools[i].description
              /\ Len(schemas[i].parameters.properties) = Len(RegisteredTools[i].params)

\* C17: the registry is the same in every state of a run as it was after
\* construction: schema derivation, resolution, tool dispatch and the grace
\* call add, remove, reorder and change nothing; the schemas derived from
\* it are one per tool, in registration order, and they are what a call
\* holds and what the model calls inside the loop are given.
C17_RegistryFixed ==
    /\ tools = RegisteredTools
    /\ ConstructedSchemasInOrder
    /\ pc # "idle" =>
          /\ Len(tool_schemas) = Len(tools)
          /\ \A i \in 1..Len(tools) : tool_schemas[i].name = tools[i].name
    /\ (model_calls > 0 /\ grace_calls = 0) =>
          /\ Len(request.tools) = Len(tools)
          /\ \A i \in 1..Len(tools) :
                request.tools[i].function.name = tools[i].name

C17_Witness ==
    /\ pc = "returned"
    /\ grace_calls = 1
    /\ Len(invocations) = 3
    /\ \E i \in 1..3 : invocations[i].kind = "UnknownCapability"
    /\ \E i \in 1..3 : invocations[i].handler_ran
    /\ tools = RegisteredTools
    /\ Len(tool_schemas) = 21

\* the locals of call r: those of the running call, or those kept in waiting
FrameOf(r) == IF run = r THEN Frame ELSE waiting

\* the ids of the tool calls the assistant messages of a conversation request
RequestedIds(conversation) ==
    UNION { { conversation[p].tool_calls[k].id :
                 k \in 1..Len(conversation[p].tool_calls) } :
               p \in { p \in 1..Len(conversation) : conversation[p].role = "assistant" } }

\* the ids the tool messages of a conversation answer
AnsweredIds(conversation) ==
    { conversation[p].tool_call_id :
         p \in { p \in 1..Len(conversation) : conversation[p].role = "tool" } }

\* the user messages of a conversation
UserTexts(conversation) ==
    { conversation[p].content :
         p \in { p \in 1..Len(conversation) : conversation[p].role = "user" } }

\* last_successful_tools as the executed tool calls of call f alone give it:
\* the recorded calls of the last finished turn that has any
OwnLastSuccessful(f) ==
    LET finished(i) ==
            \/ f.invocations[i].turn < f.iteration
            \/ f.pc \notin { "ExecutingTools", "InHandler" }
        counted == { i \in 1..Len(f.invocations) :
                        f.invocations[i].recorded /\ finished(i) }
    IN  IF counted = {} THEN << >>
        ELSE LET turn == f.invocations[CHOOSE i \in counted :
                                          \A j \in counted : j <= i].turn
                 of_turn == SelectSeq(f.invocations,
                               LAMBDA inv : inv.turn = turn /\ inv.recorded)
             IN  [i \in 1..Len(of_turn) |->
                    [name |-> of_turn[i].name, result |-> of_turn[i].result]]

\* what call r holds is made of what call r did
OwnState(r) ==
    LET f == FrameOf(r)
        other == FrameOf(3 - r)
    IN  /\ f.pc # "idle" =>
              /\ f.args.user_message = ConcurrentUserMessage(r)
              /\ UserTexts(f.messages) = { ConcurrentUserMessage(r) }
              /\ f.messages[1] = Message("system", system_prompt(f.args.now))
        /\ f.pc = "idle" => f = NoCall
        /\ AnsweredIds(f.messages) = { f.invocations[i].id : i \in 1..Len(f.invocations) }
        /\ AnsweredIds(f.messages) \subseteq RequestedIds(f.messages)
        /\ RequestedIds(f.messages) \cap RequestedIds(other.messages) = {}
        /\ Len(f.messages) =
              (IF f.pc = "idle" THEN 0 ELSE 2)
              + Cardinality(RequestedIds(f.messages)) + Len(f.invocations)
        /\ f.iteration = f.model_calls
        /\ f.last_successful_tools = OwnLastSuccessful(f)
        /\ f.request.messages # << >> =>
              UserTexts(f.request.messages) = { ConcurrentUserMessage(r) }

DoneInTurn == SelectSeq(invocations, LAMBDA inv : inv.turn = iteration)

\* C19: a model call is made only with a conversation in which every tool
\* call requested so far has its tool message, so the call of turn k+1
\* comes after all the results of turn k; while the tool calls of a response
\* are executed, the calls before the current one are finished, in the order
\* of the response, the current one is the only one that may be inside a
\* handler, and none after it has been started.
C19_TurnsSequential ==
    /\ RequestedIds(request.messages) = AnsweredIds(request.messages)
    /\ ~TurnInProgress =>
          /\ RequestedIds(messages) = AnsweredIds(messages)
          /\ \A i \in 1..Len(invocations) :
                pc = "AwaitingModel" => invocations[i].turn < iteration
    /\ TurnInProgress =>
          /\ tool_index \in 1..Len(response.tool_calls)
          /\ Len(DoneInTurn) = tool_index - 1
          /\ \A k \in 1..(tool_index - 1) :
                DoneInTurn[k].id = response.tool_calls[k].id
          /\ \A k \in tool_index..Len(response.tool_calls) :
                response.tool_calls[k].id \notin AnsweredIds(messages)
          /\ request.messages = SubSeq(messages, 1, Len(messages) - tool_index)
    /\ \A i, j \in 1..Len(invocations) :
          i < j => /\ invocations[i].turn <= invocations[j].turn
                   /\ invocations[i].id < invocations[j].id
    /\ HandlerCalls <= Len(invocations) + 1

C19_Witness ==
    /\ pc = "InHandler"
    /\ iteration = 2
    /\ tool_index = 2
    /\ Len(invocations) = 2
    /\ invocations[1].turn = 1 /\ invocations[1].handler_ran
    /\ invocations[2].turn = 2

\* the call has started and has not called the model yet
BeforeFirstModelCall == pc = "loop" /\ model_calls = 0

\* message carries the context mapping: it is a system message whose text
\* starts with "Additional context: " and has every key and value of it
CarriesContext(message, context) ==
    /\ message.role = "system"
    /\ IsPrefix(Str("Additional context: "), message.content)
    /\ \A i \in 1..Len(context.items) :
          /\ Contains(message.content, JsonStr(context.items[i][1]))
          /\ Contains(message.content, JsonStr(context.items[i][2]))

\* the first and the last message of the initial conversation
SystemFirstUserLast ==
    /\ Len(messages) >= 2
    /\ messages[1] = Message("system", system_prompt(args.now))
    /\ messages[Len(messages)] = Message("user", args.user_message)

\* C20 as stated: before the first model call the conversation is the system
\* message, then, when a context mapping is supplied, one system message
\* carrying it, then the user message, and nothing else.
C20_InitAsStated ==
    BeforeFirstModelCall =>
        /\ SystemFirstUserLast
        /\ IF args.context # PyNone
           THEN Len(messages) = 3 /\ CarriesContext(messages[2], args.context)
           ELSE Len(messages) = 2

\* C20, amended: before the first model call the conversation is the system
\* message, then, when a context mapping with at least one entry is
\* supplied, one system message carrying it ("Additional context: " and the
\* mapping as indented JSON), then the user message, and nothing else; no
\* context and an empty mapping add no message.  The first model call is
\* given exactly this conversation.
C20_InitialConversation ==
    /\ BeforeFirstModelCall =>
          /\ SystemFirstUserLast
          /\ IF args.context # PyNone /\ args.context.items # << >>
             THEN /\ Len(messages) = 3
                  /\ CarriesContext(messages[2], args.context)
                  /\ args.context = PyDict(<< << Str("channel_id"), Str("C042") >> >>) =>
                        messages[2].content =
                           << "Additional context: ", "{", "\n  ",
                              "\"", "channel_id", "\"", ": ", "\"", "C042", "\"",
                              "\n", "}" >>
             ELSE Len(messages) = 2
    /\ (pc = "AwaitingModel" /\ model_calls = 1) =>
          /\ request.messages = messages
          /\ Len(messages) \in { 2, 3 }
          /\ SystemFirstUserLast

C20_Witness ==
    /\ BeforeFirstModelCall
    /\ Len(messages) = 3
    /\ messages[2].role = "system"
    /\ args.context # PyNone
    /\ messages[3].role = "user"

\* the date/time block of a system message text names clock value t
NamesClock(text, t) == Contains(text, t)

\* the system message of call r is made from the clock value the call read
FreshDateTime(r) ==
    LET f == FrameOf(r)
    IN  f.pc # "idle" =>
           /\ f.messages[1].role = "system"
           /\ f.messages[1].content =
                 base_system_prompt \o Str("\n\n")
                 \o Str("*CRITICAL DATE/TIME CONTEXT* RIGHT NOW: ") \o f.args.now
           /\ \A t \in ConcurrentClockValues :
                 NamesClock(f.messages[1].content, t) <=> t = f.args.now
           /\ f.request.messages # << >> => f.request.messages[1] = f.messages[1]

\* C21: the system message of every call of process_user_message carries
\* the date/time block of the clock value read during that call, whatever
\* the clock was when the orchestrator was constructed or when another call
\* started: two calls that read different clock values have different
\* system messages, each naming its own clock value, and every model call
\* of a call is given the system message of that call.
C21_DateTimeFreshPerCall ==
    /\ FreshDateTime(1) /\ FreshDateTime(2)
    /\ (FrameOf(1).pc # "idle" /\ FrameOf(2).pc # "idle"
           /\ FrameOf(1).args.now # FrameOf(2).args.now) =>
          FrameOf(1).messages[1] # FrameOf(2).messages[1]

C21_Witness ==
    /\ FrameOf(1).pc = "returned" /\ FrameOf(2).pc = "AwaitingModel"
    /\ FrameOf(1).args.now = ConstructionTime
    /\ FrameOf(2).args.now = Str("2025-09-01 10:00:00")
    /\ NamesClock(FrameOf(2).request.messages[1].content, Str("2025-09-01 10:00:00"))
    /\ ~NamesClock(FrameOf(2).request.messages[1].content, ConstructionTime)

\* both calls of process_user_message have derived their schemas
BothDerived == FrameOf(1).pc # "idle" /\ FrameOf(2).pc # "idle"

RECURSIVE SchemaByRules(_, _)
SchemaByRules(t, bare_dict_is_mapping) ==
    LET members == Tail(t)
        is_union == t[1] = "Union"
        non_null == SelectSeq(members, LAMBDA m : m # TNoneType)
        is_optional == is_union /\ Len(non_null) = 1 /\ Len(members) = 2
    IN  IF t = TStr THEN << "string" >>
        ELSE IF t = TInt THEN << "integer" >>
        ELSE IF t = TFloat THEN << "number" >>
        ELSE IF t = TBool THEN << "boolean" >>
        ELSE IF t[1] = "list" /\ Len(t) = 2
        THEN << "array", SchemaByRules(t[2], bare_dict_is_mapping) >>
        ELSE IF t[1] = "dict" \/ (bare_dict_is_mapping /\ t = TDictClass)
        THEN << "object" >>
        ELSE IF is_optional
        THEN SchemaByRules(non_null[1], bare_dict_is_mapping)
        ELSE << "string" >>

\* every property of every derived schema is what the rules give for the
\* annotation of the handler's parameter, and the model is offered the same
PropertiesFollowRules(bare_dict_is_mapping) ==
    pc # "idle" =>
        /\ Len(tool_schemas) = Len(tools)
        /\ \A k \in 1..Len(tools) :
              LET properties == tool_schemas[k].parameters.properties
              IN  /\ Len(properties) = Len(tools[k].params)
                  /\ \A i \in 1..Len(tools[k].params) :
                        properties[i] =
                           << tools[k].params[i].name,
                              SchemaByRules(tools[k].params[i].annotation,
                                            bare_dict_is_mapping) >>
        /\ model_calls > 0 =>
              \A k \in 1..Len(tools) :
                 request.tools[k].function.parameters.properties =
                    tool_schemas[k].parameters.properties

Range(seq) == { seq[i] : i \in 1..Len(seq) }

\* C24: in every derived schema the names in required are exactly the names
\* of the handler's parameters that have no default value, each once and in
\* the order of the signature, and every name in required is a key of
\* properties; the model is offered the same required list.
C24_RequiredIffNoDefault ==
    pc # "idle" =>
        \A k \in 1..Len(tools) :
           LET params == tools[k].params
               parameters == tool_schemas[k].parameters
               keys == { parameters.properties[i][1] :
                            i \in 1..Len(parameters.properties) }
           IN  /\ \A i \in 1..Len(params) :
                     params[i].name \in Range(parameters.required)
                        <=> ~params[i].has_default
               /\ Range(parameters.required) \subseteq keys
               /\ Range(parameters.required) \subseteq ParamNames(tools[k])
               /\ \A i, j \in 1..Len(parameters.required) :
                     parameters.required[i] = parameters.required[j] => i = j
               /\ model_calls > 0 =>
                     request.tools[k].function.parameters.required = parameters.required

C24_Witness ==
    /\ pc = "AwaitingModel"
    /\ tools = register_tools
    /\ tools[16].name = "create_time_entry"
    /\ Len(tool_schemas[16].parameters.properties) = 5
    /\ request.tools[16].function.parameters.required = << "task_id", "duration_hours" >>
    /\ tool_schemas[5].parameters.required = << "client_name" >>
    /\ tool_schemas[3].parameters.required = << >>

\* the answers posted for the message: responses of process_user_message
Answers == SelectSeq(slack.posted, LAMBDA post : post.kind = "answer")

\* C25: for one message posted by a user, delivered as an app_mention
\* event, as a message event or as both, the handlers start at most one
\* call of process_user_message and post at most one answer.
C25_OneProcessCallPerMessage ==
    /\ slack.process_calls <= 1
    /\ Len(Answers) <= 1

\* value is a mapping with an "error" entry that is not empty
HasErrorEntry(value) ==
    /\ value.type = "dict"
    /\ \E i \in 1..Len(value.items) :
          /\ value.items[i][1] = Str("error")
          /\ value.items[i][2] # << >>
          /\ value.items[i][2] # None

\* the record the loop keeps of the tool calls kept: name and result of each
RecordOf(kept) ==
    [i \in 1..Len(kept) |-> [name |-> kept[i].name, result |-> kept[i].result]]

\* the turn whose record current_iteration_tools holds
RecordOfTurn == pc \in { "ExecutingTools", "InHandler" } \/ (pc = "loop" /\ iteration > 0)

\* every tool call whose handler returned has the handler's value as its
\* result, and every other one a failure envelope
ResultsPassedOn ==
    \A i \in 1..Len(invocations) :
       IF invocations[i].kind = "ok"
       THEN invocations[i].handler_ran /\ invocations[i].result \in HandlerValues
       ELSE /\ invocations[i].kind \in
                  { "InvalidArguments", "UnknownCapability", "CapabilityExecutionError" }
            /\ HasErrorEntry(invocations[i].result)
            /\ DictKeys(invocations[i].result) = { Str("error") }

\* C26 as stated: the tool calls recorded as successful are those for which
\* the dispatcher produced no failure envelope, that is those whose handler
\* returned, also when the value returned is a mapping with an "error" key;
\* the value is recorded unchanged.
C26_RecordedIffNoEnvelope ==
    /\ ResultsPassedOn
    /\ RecordOfTurn =>
          current_iteration_tools = RecordOf(SelectSeq(DoneInTurn, LAMBDA inv : inv.kind = "ok"))

\* C26, amended: the tool calls recorded as successful are those whose
\* result is not a mapping with a non-empty "error" entry: a tool call that
\* failed by decoding, by resolution, by binding or in a raising handler is
\* not recorded, a tool call whose handler returned is recorded with the
\* handler's value unchanged, unless that value is itself a mapping with a
\* non-empty "error" entry, which is not recorded either.
C26_RecordedIffNoErrorEntry ==
    /\ ResultsPassedOn
    /\ RecordOfTurn =>
          current_iteration_tools =
             RecordOf(SelectSeq(DoneInTurn, LAMBDA inv : ~HasErrorEntry(inv.result)))
    /\ pc = "loop" =>
          \A i \in 1..Len(last_successful_tools) :
             /\ ~HasErrorEntry(last_successful_tools[i].result)
             /\ last_successful_tools[i].result \in HandlerValues

C26_Witness ==
    /\ pc = "loop"
    /\ iteration = 1
    /\ Len(invocations) = 3
    /\ invocations[1].kind = "ok" /\ HasErrorEntry(invocations[1].result)
    /\ invocations[2].kind = "ok" /\ invocations[2].result.type = "list"
    /\ invocations[3].kind = "UnknownCapability"
    /\ Len(current_iteration_tools) = 1
    /\ current_iteration_tools[1].result = invocations[2].result
    /\ last_successful_tools = current_iteration_tools

\* the conversation the call started with
InitMessages == InitialMessages(args.user_message, args.context, args.now)

\* the executed tool calls of turn k, in order
InvocationsOfTurn(k) == SelectSeq(invocations, LAMBDA inv : inv.turn = k)

\* the part of a conversation that turn k adds: the assistant message with
\* the requests of the turn, then one tool message for each request, in order
RECURSIVE TurnsFrom(_, _, _)
TurnsFrom(conversation, p, k) ==
    IF p > Len(conversation) THEN TRUE
    ELSE LET calls == conversation[p].tool_calls
             done == InvocationsOfTurn(k)
         IN  /\ conversation[p].role = "assistant"
             /\ calls # << >>
             /\ Len(done) = Len(calls)
             /\ p + Len(calls) <= Len(conversation)
             /\ \A j \in 1..Len(calls) :
                   /\ done[j].id = calls[j].id
                   /\ conversation[p + j] =
                         ToolMessage(calls[j].id, ToolContent(done[j].result))
             /\ TurnsFrom(conversation, p + Len(calls) + 1, k + 1)

\* conversation is the initial messages followed by the given number of
\* finished turns, and no tool message answers an id twice
InitThenTurns(conversation, turns) ==
    /\ IsPrefix(InitMessages, conversation)
    /\ TurnsFrom(conversation, Len(InitMessages) + 1, 1)
    /\ Cardinality({ p \in 1..Len(conversation) : conversation[p].role = "assistant" })
          = turns
    /\ \A p, q \in 1..Len(conversation) :
          (/\ conversation[p].role = "tool" /\ conversation[q].role = "tool"
           /\ conversation[p].tool_call_id = conversation[q].tool_call_id) => p = q
    /\ AnsweredIds(conversation) = RequestedIds(conversation)

\* C27: every model call of the loop is given the initial messages followed,
\* for each finished turn in order, by the assistant message of the turn and
\* then exactly one tool message for each tool call it requested, with the
\* ids of the requests in their order: the call after k finished turns has
\* k such parts, no tool message is there twice and none answers an id that
\* was not requested; between turns the conversation itself has this form.
C27_ConversationIsInitThenTurns ==
    /\ (model_calls >= 1 /\ grace_calls = 0) =>
          InitThenTurns(request.messages, model_calls - 1)
    /\ (pc = "loop" /\ iteration > 0) => InitThenTurns(messages, iteration)

C27_Witness ==
    /\ pc = "AwaitingModel"
    /\ model_calls = 2
    /\ Len(InvocationsOfTurn(1)) = 3
    /\ Len(request.messages) = 6
    /\ request.messages[3].role = "assistant"
    /\ \A j \in 1..3 : request.messages[3 + j].tool_call_id = j

\* the grace call was made and raised: the run returned without a response
\* of the grace call
GraceCallFailed ==
    /\ Returned
    /\ grace_calls = 1
    /\ response.tool_calls # << >>

\* C28: a grace call that fails does not end the run in Error: the step in
\* which it fails returns the apology with outcome Exhausted, makes no model
\* call and leaves the conversation as it is, and nothing happens after
\* it; the system instruction of the grace call is in the request of the
\* grace call only, never in the conversation of the run.
C28_GraceFailureNotFatal ==
    /\ [][ (pc = "AwaitingGrace" /\ response' = response) =>
              /\ pc' = "returned"
              /\ outcome' = "Exhausted"
              /\ result' = ApologyMessage
              /\ UNCHANGED << model_calls, grace_calls, messages, invocations, model_failed >>
         ]_vars
    /\ [][ GraceCallFailed => UNCHANGED vars ]_vars
    /\ [](GraceCallFailed =>
            /\ outcome = "Exhausted"
            /\ result = ApologyMessage
            /\ ~model_failed
            /\ model_calls = max_iterations)
    /\ [](/\ \A p \in 1..Len(messages) : messages[p] # Message("system", FinalInstruction)
          /\ grace_calls = 1 =>
                /\ request.messages[Len(request.messages)] = Message("system", FinalInstruction)
                /\ SubSeq(request.messages, 1, Len(request.messages) - 1) = messages)

C28_Witness ==
    /\ GraceCallFailed
    /\ result = ApologyMessage
    /\ outcome = "Exhausted"
    /\ Len(request.messages) = Len(messages) + 1
    /\ last_successful_tools # << >>

\* the registry as constructed, as the tools of a model request: one
\* function per registered tool, in registration order
ConstructedToolList ==
    [i \in 1..Len(RegisteredTools) |->
        [type |-> "function",
         function |-> [name |-> RegisteredTools[i].name,
                       description |-> RegisteredTools[i].description,
                       parameters |-> tool_schema(RegisteredTools[i]).parameters]]]

\* C29: every model call inside the loop is given the schemas of the whole
\* registry, one function per registered tool in registration order, the
\* same list on every turn of the run; the grace call, and only the grace
\* call, is given the empty list.
C29_FullSchemaListInLoop ==
    /\ (model_calls >= 1 /\ grace_calls = 0) =>
          /\ request.tools = ConstructedToolList
          /\ Len(request.tools) = Len(tools)
          /\ request.tools # << >>
    /\ grace_calls = 1 => request.tools = << >>
    /\ request.tools = << >> => (model_calls = 0 \/ grace_calls = 1)

C29_Witness ==
    /\ pc = "AwaitingModel"
    /\ model_calls = 2
    /\ invocations # << >>
    /\ Len(request.tools) = 21
    /\ request.tools[1].function.name = "get_client_mapping"
    /\ request.tools[21].function.name = "get_conversation_context"

\* the decoded arguments leave out a parameter of the handler that has no default
OmitsRequired(tool, arguments) ==
    /\ arguments.type = "dict"
    /\ \E i \in 1..Len(tool.params) :
          /\ tool.params[i].kind # "VAR_KEYWORD"
          /\ ~tool.params[i].has_default
          /\ \A k \in DictKeys(arguments) : k # Str(tool.params[i].name)

\* the decoded arguments hold a key that is no named parameter of the handler
HasUndeclared(tool, arguments) ==
    /\ arguments.type = "dict"
    /\ \E k \in DictKeys(arguments) :
          \A i \in 1..Len(tool.params) :
             tool.params[i].kind = "VAR_KEYWORD" \/ k # Str(tool.params[i].name)

\* the handler takes **name: it collects the keywords it does not declare
TakesAnyKeyword(tool) ==
    \E i \in 1..Len(tool.params) : tool.params[i].kind = "VAR_KEYWORD"

\* the tool call names a registered tool and its payload decodes
DecodedForRegistered(tool_call) ==
    /\ JsonLoads(tool_call.arguments).ok
    /\ \E i \in 1..Len(tools) : tools[i].name = tool_call.name

RegisteredTool(tool_call) ==
    tools[CHOOSE i \in 1..Len(tools) : tools[i].name = tool_call.name]

\* the three cases as stated: any undeclared key is refused
BadArgumentsAsStated(tool_call) ==
    /\ DecodedForRegistered(tool_call)
    /\ LET arguments == JsonLoads(tool_call.arguments).value
           tool == RegisteredTool(tool_call)
       IN  \/ arguments.type # "dict"
           \/ OmitsRequired(tool, arguments)
           \/ HasUndeclared(tool, arguments)

\* the three cases, an undeclared key counting only for a handler without **name
BadArguments(tool_call) ==
    /\ DecodedForRegistered(tool_call)
    /\ LET arguments == JsonLoads(tool_call.arguments).value
           tool == RegisteredTool(tool_call)
       IN  \/ arguments.type # "dict"
           \/ OmitsRequired(tool, arguments)
           \/ HasUndeclared(tool, arguments) /\ ~TakesAnyKeyword(tool)

\* the envelope of a handler-level error
IsHandlerLevelEnvelope(value) ==
    /\ value.type = "dict"
    /\ Len(value.items) = 1
    /\ value.items[1][1] = Str("error")
    /\ Len(value.items[1][2]) >= 2
    /\ SubSeq(value.items[1][2], 1, 2)
         = << "Tool execution failed: ", "Tool call failed: " >>

\* the step that executes tool_call: the handler body is not entered, the
\* envelope is recorded and appended as the tool result, and the run goes on
\* with the next tool call or the next turn
RefusedStep(tool_call) ==
    /\ pc' \in { "ExecutingTools", "loop" }
    /\ outcome' = "none" /\ result' = None
    /\ Len(invocations') = Len(invocations) + 1
    /\ LET inv == invocations'[Len(invocations')]
       IN  /\ inv.id = tool_call.id
           /\ ~inv.handler_ran
           /\ IsHandlerLevelEnvelope(inv.result)
           /\ ~inv.recorded
           /\ Len(messages') = Len(messages) + 1
           /\ messages'[Len(messages')].role = "tool"
           /\ messages'[Len(messages')].tool_call_id = tool_call.id
           /\ messages'[Len(messages')].content = ToolContent(inv.result)

\* C30 as stated: decoded arguments that omit a required parameter, hold a
\* parameter the handler does not declare, or are not a mapping never reach
\* the handler body; the result is a failure envelope of the handler level
\* and the run continues.
C30_BadArgumentsRefusedAsStated ==
    [][ (pc = "ExecutingTools" /\ BadArgumentsAsStated(response.tool_calls[tool_index]))
          => RefusedStep(response.tool_calls[tool_index]) ]_vars

\* C30: decoded arguments that omit a required parameter, that are not a
\* mapping, or that hold a parameter the handler does not declare while the
\* handler takes no **name parameter, never reach the handler body; the
\* result is a failure envelope of the handler level, it is appended as the
\* tool result, and the run continues.  A handler with a **name parameter is
\* entered with the undeclared parameters when its required ones are given.
C30_BadArgumentsRefused ==
    /\ [][ (pc = "ExecutingTools" /\ BadArguments(response.tool_calls[tool_index]))
            => RefusedStep(response.tool_calls[tool_index]) ]_vars
    /\ [][ ( /\ pc = "ExecutingTools"
             /\ DecodedForRegistered(response.tool_calls[tool_index])
             /\ ~BadArguments(response.tool_calls[tool_index]) )
            => (pc' = "InHandler" /\ invocations' = invocations) ]_vars
    /\ [](pc = "returned" /\ outcome = "Error" => model_failed)

\* a call with an undeclared parameter was refused, the run went on and a
\* later call that gave **filters an undeclared parameter ran the handler
C30_Witness ==
    /\ Len(invocations) = 2
    /\ Len(response.tool_calls) = 2
    /\ response.tool_calls[1].arguments = ArgsUndeclared
    /\ response.tool_calls[1].name = "get_client_mapping"
    /\ invocations[1].id = response.tool_calls[1].id
    /\ ~invocations[1].handler_ran
    /\ IsHandlerLevelEnvelope(invocations[1].result)
    /\ response.tool_calls[2].arguments = ArgsListIdStatus
    /\ response.tool_calls[2].name = "get_tasks_with_time_spent"
    /\ invocations[2].handler_ran
    /\ pc = "loop"

\* an argument mapping with the properties of the schema named in keys, in
\* the order of the schema
ArgumentsWith(parameters, keys) ==
    PyDict(SelectSeq([i \in 1..Len(parameters.properties) |->
                         << Str(parameters.properties[i][1]), Str("x") >>],
                     LAMBDA item : \E k \in keys : item[1] = Str(k)))

IsErrorText(text) ==
    /\ Len(text) >= 3
    /\ text[1] = "I apologize, but I encountered an error while processing your request: "
    /\ text[Len(text)] = ". Please try again or rephrase your question."

\* C32: process_user_message always returns a text.  A failing model call
\* inside the loop, a failure while the schemas are derived and a tool
\* result json.dumps cannot serialize each end the call with the
\* 'encountered an error' text around the message of the failure; that text
\* is neither the empty-answer fallback nor the exhaustion apology, and no
\* other step ends a call in Error.
C32_FailuresReturnErrorText ==
    /\ [](pc = "returned" =>
            /\ result # None
            /\ outcome \in { "Done", "Exhausted", "Error" })
    /\ [](outcome = "Error" =>
            /\ pc = "returned"
            /\ IsErrorText(result)
            /\ result \notin { FallbackMessage, ApologyMessage })
    /\ [][ /\ (pc = "idle" /\ pc' # "idle" /\ SignatureError(tools) # << >>) =>
                 /\ outcome' = "Error"
                 /\ Contains(result', << "None is not a callable object" >>)
           /\ (pc = "InHandler" /\ pc' = "returned") =>
                 /\ outcome' = "Error"
                 /\ Contains(result', NotSerializableError)
           /\ (pc = "AwaitingModel" /\ model_failed') =>
                 /\ outcome' = "Error"
                 /\ \E e \in TransportErrors : Contains(result', e)
           /\ (outcome # "Error" /\ outcome' = "Error") =>
                 pc \in { "idle", "InHandler", "AwaitingModel" }
         ]_vars

\* a tool result with a datetime ended the second turn of a call in the
\* error text, after a tool call of the first turn had completed
C32_Witness ==
    /\ pc = "returned"
    /\ outcome = "Error"
    /\ tools = register_tools
    /\ ~model_failed
    /\ model_calls = 2
    /\ Len(invocations) = 1
    /\ result = ErrorMessage(NotSerializableError)

\* C33 as stated: a method of SupabaseTools never returns a cached value more
\* than cache_ttl_seconds after that value was put into the cache.
C33_CachedValueWithinTTL ==
    supabase.returned.from_cache => supabase.returned.age <= cache_ttl_seconds

WriteOps == { "update_client_mapping", "create_client_mapping" }
ReadOps == { "get_client_mapping", "get_all_client_names" }

\* the step is a call of op that returns
Returns(ops) == supabase' # supabase /\ supabase'.now = supabase.now /\ supabase'.returned.op \in ops

\* C34: a write that returns a record leaves the cache empty and without
\* timestamp; a write that raises or returns no record leaves cache and
\* timestamp as they were; a read that finds no timestamp goes to the
\* table; and whatever a read returns from the cache was read from the
\* table after the last write that returned a record.
C34_WriteInvalidatesCache ==
    /\ [][ (Returns(WriteOps) /\ supabase'.table_version # supabase.table_version) =>
               /\ supabase'.cache = [k \in CacheKeys |-> Absent]
               /\ supabase'.cache_timestamp = NoTimestamp
               /\ ~supabase'.returned.empty /\ ~supabase'.returned.raised ]_vars
    /\ [][ (Returns(WriteOps) /\ supabase'.table_version = supabase.table_version) =>
               /\ supabase'.cache = supabase.cache
               /\ supabase'.cache_timestamp = supabase.cache_timestamp
               /\ supabase'.returned.empty \/ supabase'.returned.raised ]_vars
    /\ [][ (Returns(ReadOps) /\ supabase.cache_timestamp = NoTimestamp) =>
               supabase'.returned.queried /\ ~supabase'.returned.from_cache ]_vars
    /\ [](supabase.returned.from_cache =>
             supabase.returned.version = supabase.table_version)
    /\ [](\A k \in CacheKeys :
             supabase.cache[k].present =>
                supabase.cache[k].version = supabase.table_version)

\* after a write that returned a record, the list of names is read from the
\* table again, cached, and returned from the cache with the new version
C34_Witness ==
    /\ supabase.table_version = 1
    /\ supabase.returned.op = "get_all_client_names"
    /\ supabase.returned.from_cache
    /\ supabase.returned.version = 1
    /\ ~supabase.cache["client_mapping_acme"].present
    /\ supabase.cache["all_client_names"].stored > 0

\* C35: every thread key holds at most 10 exchanges, and they are the last
\* exchanges recorded for that key, in the order they were recorded; a call
\* of _update_thread_context changes the exchanges of the key it is called
\* with and of no other key.
C35_ThreadContextBounded ==
    /\ [](\A k \in ThreadKeys :
             LET held == threads.thread_contexts[k].messages
                 all == threads.recorded[k]
             IN  /\ Len(held) <= 10
                 /\ Len(held) = IF Len(all) < 10 THEN Len(all) ELSE 10
                 /\ \A i \in 1..Len(held) :
                       held[i] = all[Len(all) - Len(held) + i]
                 /\ \A i, j \in 1..Len(held) : i < j => held[i].call < held[j].call
                 /\ threads.thread_contexts[k].present <=> all # << >>)
    /\ [][ \A k \in ThreadKeys :
              threads'.recorded[k] = threads.recorded[k]
                 => threads'.thread_contexts[k] = threads.thread_contexts[k] ]_vars
    /\ [][ threads'.calls # threads.calls =>
              \E k \in ThreadKeys :
                 /\ Len(threads'.recorded[k]) = Len(threads.recorded[k]) + 1
                 /\ \A other \in ThreadKeys \ { k } :
                       threads'.thread_contexts[other] = threads.thread_contexts[other] ]_vars

\* eleven exchanges were recorded for one thread and one for the other: the
\* first holds the second to the eleventh of its own, the other its one
C35_Witness ==
    LET k1 == << "C042", ":", "1725184800.0001" >>
        k2 == << "C042", ":", "1725184900.0002" >>
    IN  /\ Len(threads.recorded[k1]) = 11
        /\ Len(threads.recorded[k2]) = 1
        /\ Len(threads.thread_contexts[k1].messages) = 10
        /\ threads.thread_contexts[k1].messages[1] = threads.recorded[k1][2]
        /\ threads.thread_contexts[k1].messages[10].bot_response = 200
        /\ threads.thread_contexts[k2].messages = threads.recorded[k2]

\* handle_thread_message has called _process_message for the message
ThreadHandlerProcessed ==
    \/ slack.pc[ThreadMessage] \in { "processing", "updating" }
    \/ \E i \in 1..Len(slack.posted) :
          slack.posted[i] = [by |-> ThreadMessage, kind |-> "answer"]

\* C36 as stated: handle_thread_message starts a process call only for a
\* message that no bot produced, that is no file share, that is in a thread
\* and has text, in a thread where the bot was mentioned or has replied.
C36_ThreadHandlerIgnores ==
    ThreadHandlerProcessed =>
        /\ ~slack.msg.from_bot
        /\ slack.msg.subtype \notin { "bot_message", "file_share" }
        /\ slack.msg.in_thread
        /\ text_nonempty
        /\ slack.history.mentioned \/ slack.history.bot_replied

\* the components startup has initialised, in the order shutdown closes them
StartedInClosingOrder ==
    SelectSeq(<< "slack_bot", "orchestrator", "mcp_server" >>,
              LAMBDA c : \E i \in 1..Len(app.started) : app.started[i] = c)

\* C37 as stated: when run has ended, after a signal or after an error of
\* startup, shutdown has stopped the Slack bot, closed the orchestrator and
\* closed the server, in this order, each if it had been started, and a
\* further call of shutdown has closed nothing more.
C37_ShutdownClosesStarted ==
    app.pc = "ended" => app.closed = StartedInClosingOrder

====
